---- MODULE Spec2Model ----
(***************************************************************************)
(* Eshkol compiler: the driver (src/src/main.c), the call lowering and the  *)
(* context of the C code generator (backend/codegen) and the front-end and *)
(* run-time pieces they rest on, as state machines.                        *)
(*                                                                         *)
(*   SpecMain    : one run of main(), one action per block of main().      *)
(*   SpecOptions : main() on command lines of valid options.               *)
(*   SpecCall    : codegen_generate_call applied to one Call node.         *)
(*   SpecBinding : calls of binding_system_create_binding.                 *)
(*   SpecInfer   : calls of type_inference_infer_node.                     *)
(*   SpecArena   : arena_create, arena_alloc, arena_destroy.               *)
(*   SpecLexer   : the lexer's number() on one source text.                *)
(*   SpecDocumented : main() on the words of the documented command.       *)
(*   SpecContext : the functions on the code generator's context.          *)
(*   SpecEnvironment : eshkol_environment_retain and _release.             *)
(*   SpecRead    : read_file on one file.                                  *)
(***************************************************************************)
EXTENDS Integers, Sequences, FiniteSets, TLC

VARIABLES
    \* ---- main() (src/src/main.c) ----
    pc,            \* position in main()
    argv,          \* the command line, argv[0] first
    arg_index,     \* main.c:47
    verbose_mode,  \* main.c:41
    debug_mode,    \* main.c:42
    input_file,    \* main.c:43
    output_file,   \* main.c:44
    source,        \* the buffer read_file returned: NULL, "allocated", "freed"
    arena,         \* the Arena*: NULL, "live", "destroyed"
    verbosity,     \* verbosity of the diagnostic context
    ast,           \* what parser_parse_program returned: "none", NULL, "node"
    parse_errors,  \* error-severity diagnostics recorded while lexing/parsing
    codegen_errors,\* error-severity diagnostics recorded by code generation
    calls,         \* history: the external calls main() made, in order
    destroy_count, \* history: number of arena_destroy calls
    free_count,    \* history: number of free(source) calls
    use_after_destroy, \* history: an arena object was used after arena_destroy
    exit_code,     \* the value main() returned; NoExit while running
    output_open,   \* a FILE* that codegen_context_init opened is still open
    fopen_count,   \* history: successful fopen calls for the output
    fclose_count,  \* history: fclose calls for the output
    \* ---- codegen_generate_call (src/unnamed/part_004) ----
    cg_pc,         \* "idle", "ready", "done"
    node,          \* the Call node handed to codegen_generate_call
    prior,         \* what the output held before the call
    ctx,           \* the generator's state: output text, diagnostics, result
    rerun,         \* the generator's state after generating the node again
    \* ---- binding_system_create_binding (src/unnamed/part_000) ----
    binding_system,\* next_binding_id and the binding table
    binding_ret,   \* what the last call returned
    \* ---- type_inference_infer_node (src/unnamed/part_000) ----
    type_context,  \* the TypeInferenceContext: nodes, inferred_types
    infer_log,     \* history: each call's node and the type it returned
    \* ---- the arena (src/docs/aidocs/MEMORY_MANAGEMENT.md) ----
    arena_ptr,     \* the Arena* in use: NULL or the control structure
    heap,          \* the blocks malloc returned, by address
    allocs,        \* history: the regions arena_alloc returned
    frees,         \* history: the addresses handed to free(), in order
    \* ---- the lexer's number() (src/unnamed/part_000) ----
    lexer,         \* the Lexer: source, start, current
    token,         \* the token number() returned
    \* ---- the generator's context (backend/codegen/context.c) ----
    codegen_context, \* the CodegenContext: output, indent_level, in_function
    context_log,   \* history: the last call on the context and its result
    indent_ops,    \* history: increments and decrements since the last init
    \* ---- environments (src/unnamed/part_000) ----
    envs,          \* the EshkolEnvironment objects, by address
    \* ---- read_file (src/src/main.c) ----
    read_ret       \* the last read_file call: its inputs and what it left

mainVars == <<pc, argv, arg_index, verbose_mode, debug_mode, input_file,
              output_file, source, arena, verbosity, ast, parse_errors,
              codegen_errors, calls, destroy_count, free_count,
              use_after_destroy, exit_code>>
fileVars == <<output_open, fopen_count, fclose_count>>
callVars == <<cg_pc, node, prior, ctx, rerun>>
bindVars == <<binding_system, binding_ret>>
inferVars == <<type_context, infer_log>>
arenaVars == <<arena_ptr, heap, allocs, frees>>
lexerVars == <<lexer, token>>
libVars == <<bindVars, inferVars, arenaVars, lexerVars>>
contextVars == <<codegen_context, context_log, indent_ops>>
extVars == <<contextVars, envs, read_ret>>
otherVars == <<callVars, libVars, extVars>>
vars == <<mainVars, fileVars, callVars, libVars, extVars>>

NULL == "<NULL>"
NoExit == 0 - 1
\* the id no call generates, returned when the table cannot grow
BINDING_ID_INVALID == 0 - 1
\* Type* type = NULL
NoType == [kind |-> "NULL", addr |-> 0]
\* the Arena* in a state other than "live" ("uncreated", "null" once
\* arena_create returned NULL, "destroyed" once arena_destroy freed it)
NoArena(state) ==
    [state |-> state, current |-> 0, first |-> 0, total_used |-> 0,
     allocation_count |-> 0, min_block_size |-> 0]

(***************************************************************************)
(* The values the variables of a part hold while another part runs.        *)
(***************************************************************************)
FileIdle ==
    /\ output_open = FALSE
    /\ fopen_count = 0
    /\ fclose_count = 0

BindIdle ==
    /\ binding_system = [next_binding_id |-> 0, count |-> 0, capacity |-> 0,
                         table |-> <<>>]
    /\ binding_ret = BINDING_ID_INVALID

InferIdle ==
    /\ type_context = [nodes |-> <<>>, inferred_types |-> <<>>]
    /\ infer_log = <<>>

ArenaIdle ==
    /\ arena_ptr = NoArena("uncreated")
    /\ heap = <<>>
    /\ allocs = <<>>
    /\ frees = <<>>

\* no token yet
NoToken ==
    [type |-> "none", start |-> 0, length |-> 0,
     value |-> [kind |-> "none", integer |-> 0,
                floating |-> [mantissa |-> 0, exponent |-> 0]]]

LexerIdle ==
    /\ lexer = [source |-> <<>>, start |-> 1, current |-> 1]
    /\ token = NoToken

LibIdle == BindIdle /\ InferIdle /\ ArenaIdle /\ LexerIdle

\* a CodegenContext nothing was stored in
NoContext ==
    [output |-> NULL, indent_level |-> 0, in_function |-> FALSE,
     diagnostics |-> NULL]

\* no call on the context yet
NoContextCall ==
    [op |-> "none", path |-> NULL, fopen_ok |-> FALSE, ret |-> TRUE,
     text |-> "",
     before |-> NoContext]

ContextIdle ==
    /\ codegen_context = NoContext
    /\ context_log = NoContextCall
    /\ indent_ops = <<>>

EnvIdle == envs = <<>>

\* no read_file call yet
NoRead ==
    [called |-> FALSE, exists |-> FALSE, seekable |-> FALSE, file_size |-> 0,
     has_length |-> FALSE, malloc_ok |-> FALSE, size |-> 0, capacity |-> 0,
     stored |-> 0,
     ret |-> NULL, nul_at |-> 0, length |-> 0 - 1, open_files |-> 0,
     live_buffers |-> 0, returned |-> FALSE]

ReadIdle == read_ret = NoRead

ExtIdle == ContextIdle /\ EnvIdle /\ ReadIdle

(***************************************************************************)
(* Bounds of the model.                                                    *)
(***************************************************************************)
MaxArgs == 3        \* command-line arguments after argv[0]
MaxDiag == 1        \* error diagnostics one pass may record
MaxCallArgs == 3    \* arguments of the Call node

(***************************************************************************)
(* Program constants.                                                      *)
(***************************************************************************)
TEMP_FILE_SIZE == 256   \* char temp_file[256]

(***************************************************************************)
(* Command lines.                                                          *)
(***************************************************************************)
RECURSIVE Rep(_, _)
Rep(s, n) == IF n = 0 THEN "" ELSE s \o Rep(s, n - 1)

\* An input path as long as temp_file can hold without its terminator.
LongInput == Rep("p", TEMP_FILE_SIZE - 1)

Words == {"-v", "-d", "-h", "-x", "in.esk", "out.c", LongInput}

SeqsUpTo(S, n) == UNION {[1..k -> S] : k \in 0..n}

ArgvSet == {<<"eshkol">> \o s : s \in SeqsUpTo(Words, MaxArgs)}

argc == Len(argv)
Arg(i) == argv[i + 1]      \* argv[i] of the C program

\* snprintf(buf, size, "%s", s): at most size - 1 characters are stored.
Snprintf(size, s) == IF Len(s) < size THEN s ELSE SubSeq(s, 1, size - 1)

(***************************************************************************)
(* Outcomes of the functions main() calls whose bodies lie outside main.c. *)
(***************************************************************************)
\* parser_parse_program: a parse failure records a diagnostic and yields an
\* Erroneous node, parsing resumes; the program node may so be non-NULL
\* although errors were recorded.
ParseOutcomes == [ast : {NULL, "node"}, errors : 0..MaxDiag]

\* codegen_generate: a failure flag, with or without a diagnostic.
GenerateOutcomes == {[ok |-> TRUE, errors |-> 0]}
                    \cup [ok : {FALSE}, errors : 0..MaxDiag]

\* codegen_compile_and_execute returns an int; 0 is success.
ExecResults == {0, 1, 2}

(***************************************************************************)
(* main(), src/src/main.c:37-212.                                          *)
(***************************************************************************)
Call(fn, ok, arg) == Append(calls, [fn |-> fn, ok |-> ok, arg |-> arg])

\* return <code>; before the arena exists (main.c:60, 64, 74, 96)
Return(code) ==
    /\ pc' = "done"
    /\ exit_code' = code

\* The cleanup with a slip: arena_destroy is forgotten.
CleanupAndReturn_NoDestroy(code) ==
    /\ source' = "freed"
    /\ free_count' = free_count + 1
    /\ pc' = "done"
    /\ exit_code' = code
    /\ UNCHANGED <<arena, destroy_count>>

\* arena_destroy(arena); free(source); return <code>;  (main.c:111-113 ...)
CleanupAndReturn(code) ==
    /\ arena' = "destroyed"
    /\ destroy_count' = destroy_count + 1
    /\ source' = "freed"
    /\ free_count' = free_count + 1
    /\ pc' = "done"
    /\ exit_code' = code

\* A call that takes the arena or an object allocated from it.
UsesArena == use_after_destroy' = (use_after_destroy \/ arena # "live")

\* One "create, check for NULL" block of main().
CreateStep(fn, next) ==
    \E ok \in BOOLEAN :
        /\ calls' = Call(fn, ok, "")
        /\ UsesArena
        /\ IF ok
              THEN /\ pc' = next
                   /\ UNCHANGED <<arena, destroy_count, source, free_count,
                                  exit_code>>
              ELSE CleanupAndReturn(1)

\* main.c:50-68, one iteration of the option loop
ParseOption ==
    /\ pc = "options"
    /\ arg_index < argc
    /\ Head(Arg(arg_index)) = "-"
    /\ LET arg == Arg(arg_index) IN
        IF arg = "-v" \/ arg = "--verbose"
           THEN /\ verbose_mode' = TRUE
                /\ arg_index' = arg_index + 1
                /\ UNCHANGED <<debug_mode, pc, exit_code>>
        ELSE IF arg = "-d" \/ arg = "--debug"
           THEN /\ debug_mode' = TRUE
                /\ verbose_mode' = TRUE
                /\ arg_index' = arg_index + 1
                /\ UNCHANGED <<pc, exit_code>>
        ELSE IF arg = "-h" \/ arg = "--help"
           THEN /\ Return(0)
                /\ UNCHANGED <<verbose_mode, debug_mode, arg_index>>
           ELSE /\ Return(1)
                /\ UNCHANGED <<verbose_mode, debug_mode, arg_index>>
    /\ UNCHANGED <<argv, input_file, output_file, source, arena, verbosity,
                   ast, parse_errors, codegen_errors, calls, destroy_count,
                   free_count, use_after_destroy, fileVars, otherVars>>

\* main.c:70-90 with a slip: an argument that starts with '-' is not taken
\* as the output file
ParseArguments_OutputNotOption ==
    /\ pc = "options"
    /\ ~(arg_index < argc /\ Head(Arg(arg_index)) = "-")
    /\ IF arg_index >= argc
          THEN /\ Return(1)
               /\ UNCHANGED <<input_file, output_file, arg_index>>
          ELSE /\ input_file' = Arg(arg_index)
               /\ IF arg_index + 1 < argc /\ Head(Arg(arg_index + 1)) # "-"
                     THEN /\ output_file' = Arg(arg_index + 1)
                          /\ arg_index' = arg_index + 2
                     ELSE /\ output_file' = NULL
                          /\ arg_index' = arg_index + 1
               /\ pc' = "read"
               /\ UNCHANGED exit_code
    /\ UNCHANGED <<argv, verbose_mode, debug_mode, source, arena, verbosity,
                   ast, parse_errors, codegen_errors, calls, destroy_count,
                   free_count, use_after_destroy, fileVars, otherVars>>

\* main.c:70-90, after the option loop
ParseArguments ==
    /\ pc = "options"
    /\ ~(arg_index < argc /\ Head(Arg(arg_index)) = "-")
    /\ IF arg_index >= argc
          THEN /\ Return(1)
               /\ UNCHANGED <<input_file, output_file, arg_index>>
          ELSE /\ input_file' = Arg(arg_index)
               /\ IF arg_index + 1 < argc
                     THEN /\ output_file' = Arg(arg_index + 1)
                          /\ arg_index' = arg_index + 2
                     ELSE /\ output_file' = NULL
                          /\ arg_index' = arg_index + 1
               /\ pc' = "read"
               /\ UNCHANGED exit_code
    /\ UNCHANGED <<argv, verbose_mode, debug_mode, source, arena, verbosity,
                   ast, parse_errors, codegen_errors, calls, destroy_count,
                   free_count, use_after_destroy, fileVars, otherVars>>

\* main.c:92-97
ReadFile ==
    /\ pc = "read"
    /\ \E ok \in BOOLEAN :
        /\ calls' = Call("read_file", ok, input_file)
        /\ IF ok
              THEN /\ source' = "allocated"
                   /\ pc' = "arena"
                   /\ UNCHANGED exit_code
              ELSE /\ Return(1)
                   /\ UNCHANGED source
    /\ UNCHANGED <<argv, arg_index, verbose_mode, debug_mode, input_file,
                   output_file, arena, verbosity, ast, parse_errors,
                   codegen_errors, destroy_count, free_count,
                   use_after_destroy, fileVars, otherVars>>

\* main.c:99-105
ArenaCreate ==
    /\ pc = "arena"
    /\ \E ok \in BOOLEAN :
        /\ calls' = Call("arena_create", ok, "")
        /\ IF ok
              THEN /\ arena' = "live"
                   /\ pc' = "strings"
                   /\ UNCHANGED <<source, free_count, exit_code>>
              ELSE /\ source' = "freed"
                   /\ free_count' = free_count + 1
                   /\ Return(1)
                   /\ UNCHANGED arena
    /\ UNCHANGED <<argv, arg_index, verbose_mode, debug_mode, input_file,
                   output_file, verbosity, ast, parse_errors, codegen_errors,
                   destroy_count, use_after_destroy, fileVars, otherVars>>

\* main.c:107-114
StringTableCreate ==
    /\ pc = "strings"
    /\ CreateStep("string_table_create", "diag")
    /\ UNCHANGED <<argv, arg_index, verbose_mode, debug_mode, input_file,
                   output_file, verbosity, ast, parse_errors, codegen_errors,
                   fileVars, otherVars>>

\* main.c:116-130 with a slip: verbose_mode is tested before debug_mode
DiagnosticContextCreate_VerboseFirst ==
    /\ pc = "diag"
    /\ CreateStep("diagnostic_context_create", "lexer")
    /\ verbosity' = IF pc' # "lexer" THEN verbosity
                    ELSE IF verbose_mode THEN "VERBOSITY_VERBOSE"
                    ELSE IF debug_mode THEN "VERBOSITY_DEBUG"
                    ELSE verbosity
    /\ UNCHANGED <<argv, arg_index, verbose_mode, debug_mode, input_file,
                   output_file, ast, parse_errors, codegen_errors,
                   fileVars, otherVars>>

\* main.c:116-130
DiagnosticContextCreate ==
    /\ pc = "diag"
    /\ CreateStep("diagnostic_context_create", "lexer")
    /\ verbosity' = IF pc' # "lexer" THEN verbosity
                    ELSE IF debug_mode THEN "VERBOSITY_DEBUG"
                    ELSE IF verbose_mode THEN "VERBOSITY_VERBOSE"
                    ELSE verbosity
    /\ UNCHANGED <<argv, arg_index, verbose_mode, debug_mode, input_file,
                   output_file, ast, parse_errors, codegen_errors, fileVars, otherVars>>

\* main.c:132-139
LexerCreate ==
    /\ pc = "lexer"
    /\ CreateStep("lexer_create", "parser")
    /\ UNCHANGED <<argv, arg_index, verbose_mode, debug_mode, input_file,
                   output_file, verbosity, ast, parse_errors, codegen_errors,
                   fileVars, otherVars>>

\* main.c:141-148
ParserCreate ==
    /\ pc = "parser"
    /\ CreateStep("parser_create", "parse")
    /\ UNCHANGED <<argv, arg_index, verbose_mode, debug_mode, input_file,
                   output_file, verbosity, ast, parse_errors, codegen_errors,
                   fileVars, otherVars>>

\* main.c:150-157
ParseProgram ==
    /\ pc = "parse"
    /\ \E r \in ParseOutcomes :
        /\ calls' = Call("parser_parse_program", r.ast # NULL, "")
        /\ UsesArena
        /\ ast' = r.ast
        /\ parse_errors' = parse_errors + r.errors
        /\ IF r.ast # NULL
              THEN /\ pc' = "codegen"
                   /\ UNCHANGED <<arena, destroy_count, source, free_count,
                                  exit_code>>
              ELSE CleanupAndReturn(1)
    /\ UNCHANGED <<argv, arg_index, verbose_mode, debug_mode, input_file,
                   output_file, verbosity, codegen_errors, fileVars, otherVars>>

\* main.c:159-166
CodegenContextCreate ==
    /\ pc = "codegen"
    /\ CreateStep("codegen_context_create", "generate")
    /\ UNCHANGED <<argv, arg_index, verbose_mode, debug_mode, input_file,
                   output_file, verbosity, ast, parse_errors, codegen_errors,
                   fileVars, otherVars>>

\* codegen_context_init with the NULL test of fopen's result inverted
ContextInitOutput_Inverted(path, fopen_ok) ==
    [output |-> IF path = NULL THEN "stdout"
                ELSE IF fopen_ok THEN "file" ELSE NULL,
     ok |-> path = NULL \/ ~fopen_ok]

\* context.c:49-59: the output codegen_context_init leaves in the context
\* and the value it returns, fopen succeeding or not
ContextInitOutput(path, fopen_ok) ==
    [output |-> IF path = NULL THEN "stdout"
                ELSE IF fopen_ok THEN "file" ELSE NULL,
     ok |-> path # NULL => fopen_ok]

\* codegen_generate(codegen, ast, path): the context is initialised on the
\* path, the program is generated, and the output file is closed at the
\* end, also when generation failed; a failed initialisation fails the
\* generation before anything is written.
CodegenGenerate(path, next) ==
    \E fopen_ok \in BOOLEAN, r \in GenerateOutcomes :
        LET init == ContextInitOutput(path, fopen_ok)
            opened == init.output = "file"
            closed == opened /\ init.ok
        IN
        /\ ~init.ok => ~r.ok
        /\ calls' = Call("codegen_generate", r.ok, path)
        /\ UsesArena
        /\ fopen_count' = fopen_count + (IF opened THEN 1 ELSE 0)
        /\ fclose_count' = fclose_count + (IF closed THEN 1 ELSE 0)
        /\ output_open' = (output_open \/ (opened /\ ~closed))
        /\ codegen_errors' = codegen_errors + r.errors
        /\ IF r.ok
              THEN /\ pc' = next
                   /\ UNCHANGED <<arena, destroy_count, source, free_count,
                                  exit_code>>
              ELSE CleanupAndReturn(1)

\* main.c:169-181, an output path was given
GenerateToOutput ==
    /\ pc = "generate"
    /\ output_file # NULL
    /\ CodegenGenerate(output_file, "cleanup")
    /\ UNCHANGED <<argv, arg_index, verbose_mode, debug_mode, input_file,
                   output_file, verbosity, ast, parse_errors, otherVars>>

\* main.c:182-196, no output path: generate to temp_file
GenerateToTemp ==
    /\ pc = "generate"
    /\ output_file = NULL
    /\ CodegenGenerate(Snprintf(TEMP_FILE_SIZE, input_file \o ".c"), "execute")
    /\ UNCHANGED <<argv, arg_index, verbose_mode, debug_mode, input_file,
                   output_file, verbosity, ast, parse_errors, otherVars>>

\* main.c:198-205 with a slip: the host compiler's result is returned as is
CompileAndExecute_ReturnsResult ==
    /\ pc = "execute"
    /\ LET temp_file == Snprintf(TEMP_FILE_SIZE, input_file \o ".c") IN
       \E result \in ExecResults :
        /\ calls' = Call("codegen_compile_and_execute", result = 0, temp_file)
        /\ UsesArena
        /\ IF result # 0
              THEN CleanupAndReturn(result)
              ELSE /\ pc' = "cleanup"
                   /\ UNCHANGED <<arena, destroy_count, source, free_count,
                                  exit_code>>
    /\ UNCHANGED <<argv, arg_index, verbose_mode, debug_mode, input_file,
                   output_file, verbosity, ast, parse_errors, codegen_errors,
                   fileVars, otherVars>>

\* main.c:198-205
CompileAndExecute ==
    /\ pc = "execute"
    /\ LET temp_file == Snprintf(TEMP_FILE_SIZE, input_file \o ".c") IN
       \E result \in ExecResults :
        /\ calls' = Call("codegen_compile_and_execute", result = 0, temp_file)
        /\ UsesArena
        /\ IF result # 0
              THEN CleanupAndReturn(1)
              ELSE /\ pc' = "cleanup"
                   /\ UNCHANGED <<arena, destroy_count, source, free_count,
                                  exit_code>>
    /\ UNCHANGED <<argv, arg_index, verbose_mode, debug_mode, input_file,
                   output_file, verbosity, ast, parse_errors, codegen_errors,
                   fileVars, otherVars>>

\* main.c:208-211
CleanUp ==
    /\ pc = "cleanup"
    /\ CleanupAndReturn(0)
    /\ UNCHANGED <<argv, arg_index, verbose_mode, debug_mode, input_file,
                   output_file, verbosity, ast, parse_errors, codegen_errors,
                   calls, use_after_destroy, fileVars, otherVars>>

CallIdle ==
    /\ cg_pc = "idle"
    /\ node = [type |-> "none", name |-> "", value |-> 0, kids |-> <<>>]
    /\ prior = ""
    /\ ctx = [out |-> "", diags |-> <<>>, visited |-> <<>>, depth |-> 0,
              ok |-> TRUE]
    /\ rerun = ctx

\* main.c:37-47
InitMain ==
    /\ pc = "options"
    /\ argv \in ArgvSet
    /\ arg_index = 1
    /\ verbose_mode = FALSE
    /\ debug_mode = FALSE
    /\ input_file = NULL
    /\ output_file = NULL
    /\ source = NULL
    /\ arena = NULL
    /\ verbosity = "default"
    /\ ast = "none"
    /\ parse_errors = 0
    /\ codegen_errors = 0
    /\ calls = <<>>
    /\ destroy_count = 0
    /\ free_count = 0
    /\ use_after_destroy = FALSE
    /\ exit_code = NoExit
    /\ FileIdle
    /\ CallIdle
    /\ LibIdle
    /\ ExtIdle

NextMain ==
    \/ ParseOption
    \/ ParseArguments
    \/ ReadFile
    \/ ArenaCreate
    \/ StringTableCreate
    \/ DiagnosticContextCreate
    \/ LexerCreate
    \/ ParserCreate
    \/ ParseProgram
    \/ CodegenContextCreate
    \/ GenerateToOutput
    \/ GenerateToTemp
    \/ CompileAndExecute
    \/ CleanUp

SpecMain == InitMain /\ [][NextMain]_vars

(***************************************************************************)
(* main() on command lines of valid options: any sequence of the verbose   *)
(* and debug options, short or long, then the input path and, or not, an   *)
(* output path.                                                            *)
(***************************************************************************)
MaxOptions == 3     \* options on the command line

OptionWords == {"-v", "--verbose", "-d", "--debug"}

OptionArgvSet ==
    {<<"eshkol">> \o o \o <<"in.esk">> \o t :
        o \in SeqsUpTo(OptionWords, MaxOptions), t \in {<<>>, <<"out.c">>}}

InitOptions ==
    /\ pc = "options"
    /\ argv \in OptionArgvSet
    /\ arg_index = 1
    /\ verbose_mode = FALSE
    /\ debug_mode = FALSE
    /\ input_file = NULL
    /\ output_file = NULL
    /\ source = NULL
    /\ arena = NULL
    /\ verbosity = "default"
    /\ ast = "none"
    /\ parse_errors = 0
    /\ codegen_errors = 0
    /\ calls = <<>>
    /\ destroy_count = 0
    /\ free_count = 0
    /\ use_after_destroy = FALSE
    /\ exit_code = NoExit
    /\ FileIdle
    /\ CallIdle
    /\ LibIdle
    /\ ExtIdle

SpecOptions == InitOptions /\ [][NextMain]_vars

(***************************************************************************)
(* main() on the command lines made of the words of the documented         *)
(* command, "eshkol compile hello.esk -o hello" (src/unnamed/part_001:232).*)
(***************************************************************************)
MaxDocArgs == 4     \* arguments of the documented command

DocWords == {"compile", "hello.esk", "-o", "hello"}

DocumentedCommand == <<"eshkol", "compile", "hello.esk", "-o", "hello">>

InitDocumented ==
    /\ pc = "options"
    /\ argv \in {<<"eshkol">> \o s : s \in SeqsUpTo(DocWords, MaxDocArgs)}
    /\ arg_index = 1
    /\ verbose_mode = FALSE
    /\ debug_mode = FALSE
    /\ input_file = NULL
    /\ output_file = NULL
    /\ source = NULL
    /\ arena = NULL
    /\ verbosity = "default"
    /\ ast = "none"
    /\ parse_errors = 0
    /\ codegen_errors = 0
    /\ calls = <<>>
    /\ destroy_count = 0
    /\ free_count = 0
    /\ use_after_destroy = FALSE
    /\ exit_code = NoExit
    /\ FileIdle
    /\ CallIdle
    /\ LibIdle
    /\ ExtIdle

SpecDocumented == InitDocumented /\ [][NextMain]_vars

(***************************************************************************)
(* AST nodes. A node is [type, name, value, kids]; a Call node's kids are  *)
(* its callee followed by its arguments.                                   *)
(***************************************************************************)
Node(type, name, value, kids) ==
    [type |-> type, name |-> name, value |-> value, kids |-> kids]

IntegerLiteral(v) == Node("AST_INTEGER_LITERAL", "", v, <<>>)
\* a float literal, its value held in millionths
FloatLiteral(micro) == Node("AST_FLOAT_LITERAL", "", micro, <<>>)
Identifier(name) == Node("AST_IDENTIFIER", name, 0, <<>>)
CallNode(callee, args) == Node("AST_CALL", "", 0, <<callee>> \o args)
\* a variant codegen_generate_expression has no case for
Unhandled == Node("AST_UNHANDLED", "", 0, <<>>)
NoNode == Node("none", "", 0, <<>>)

Callee(n) == n.kids[1]          \* node->as.call.callee
Args(n) == Tail(n.kids)         \* node->as.call.args
ArgCount(n) == Len(n.kids) - 1  \* node->as.call.arg_count

(***************************************************************************)
(* printf conversions.                                                     *)
(***************************************************************************)
RECURSIVE ZeroPad(_, _)
ZeroPad(s, w) == IF Len(s) >= w THEN s ELSE ZeroPad("0" \o s, w)

\* "%ld"
FormatLd(v) == ToString(v)
\* "%f" of a non-negative value given in millionths: six fractional digits
FormatF(micro) ==
    ToString(micro \div 1000000) \o "." \o ZeroPad(ToString(micro % 1000000), 6)
\* "%zu"
FormatZu(n) == ToString(n)

(***************************************************************************)
(* The generator's state while it lowers one expression:                   *)
(*   out     the text written to the output so far                         *)
(*   diags   the diagnostics recorded, [severity, type]                    *)
(*   visited history: the nodes handed to codegen_generate_expression,     *)
(*           each with the nesting depth of the call that handed it over   *)
(*   depth   history: nesting depth of codegen_generate_call               *)
(*   ok      the value the last generate function returned                 *)
(***************************************************************************)
Fresh(text) ==
    [out |-> text, diags |-> <<>>, visited |-> <<>>, depth |-> 0, ok |-> TRUE]

Write(st, text) == [st EXCEPT !.out = @ \o text]     \* fprintf(output, text)
ReturnTrue(st) == [st EXCEPT !.ok = TRUE]
ReturnFalse(st) == [st EXCEPT !.ok = FALSE]

\* the pieces of one lowering: literal text, or a sub-expression to generate
Text(lit) == [isNode |-> FALSE, lit |-> lit, node |-> NoNode]
Expr(n) == [isNode |-> TRUE, lit |-> "", node |-> n]

RECURSIVE Separated_Reversed(_, _)
\* the loop over the arguments with a slip: it runs from the last to the
\* first
Separated_Reversed(args, sep) ==
    IF Len(args) = 0 THEN <<>>
    ELSE IF Len(args) = 1 THEN <<Expr(args[1])>>
    ELSE Separated_Reversed(Tail(args), sep) \o <<Text(sep), Expr(args[1])>>

RECURSIVE Separated(_, _)
\* the loop "if (i > 0) fprintf(sep); generate(args[i])" as pieces
Separated(args, sep) ==
    IF Len(args) = 0 THEN <<>>
    ELSE IF Len(args) = 1 THEN <<Expr(args[1])>>
    ELSE <<Expr(args[1]), Text(sep)>> \o Separated(Tail(args), sep)

RECURSIVE Wrapped(_, _, _)
\* the loop "fprintf(pre); generate(args[i]); fprintf(post)" as pieces
Wrapped(args, pre, post) ==
    IF Len(args) = 0 THEN <<>>
    ELSE <<Text(pre), Expr(args[1]), Text(post)>>
         \o Wrapped(Tail(args), pre, post)

RECURSIVE GenExpr(_, _)
RECURSIVE GenSeq(_, _)
RECURSIVE GenCall(_, _)

\* The cases of codegen_generate_expression beyond the two literals: an
\* identifier lowers to its C name, a Call goes to codegen_generate_call,
\* every other variant is unhandled.
OtherCases(st, n) ==
    IF n.type = "AST_IDENTIFIER" THEN ReturnTrue(Write(st, n.name))
    ELSE IF n.type = "AST_CALL" THEN GenCall(st, n)
    ELSE ReturnFalse(st)

\* codegen_generate_expression
GenExpr(st, n) ==
    LET s1 == [st EXCEPT
                 !.diags = Append(@, [severity |-> "debug", type |-> n.type]),
                 !.visited = Append(@, [node |-> n, depth |-> st.depth])]
    IN  IF n.type = "AST_INTEGER_LITERAL"
           THEN ReturnTrue(Write(s1, FormatLd(n.value)))
        ELSE IF n.type = "AST_FLOAT_LITERAL"
           THEN ReturnTrue(Write(s1, FormatF(n.value)))
        ELSE OtherCases(s1, n)

RECURSIVE GenSeq_IgnoresFailure(_, _)
\* the run with a slip: the result of a generate is not tested, the run
\* goes on and returns true
GenSeq_IgnoresFailure(st, items) ==
    IF Len(items) = 0 THEN ReturnTrue(st)
    ELSE LET it == Head(items) IN
         IF it.isNode
            THEN GenSeq_IgnoresFailure(GenExpr(st, it.node), Tail(items))
            ELSE GenSeq_IgnoresFailure(Write(st, it.lit), Tail(items))

\* A run of fprintf and codegen_generate_expression calls, each generate
\* followed by "if (!...) return false;", ended by "return true;".
GenSeq(st, items) ==
    IF Len(items) = 0 THEN ReturnTrue(st)
    ELSE LET it == Head(items) IN
         IF it.isNode
            THEN LET r == GenExpr(st, it.node) IN
                 IF r.ok THEN GenSeq(r, Tail(items)) ELSE ReturnFalse(r)
            ELSE GenSeq(Write(st, it.lit), Tail(items))

\* "(" a " op " b ")" and its likes
Binary(st, pre, a, mid, b, post) ==
    GenSeq(st, <<Text(pre), Expr(a), Text(mid), Expr(b), Text(post)>>)

Unary(st, pre, a, post) == GenSeq(st, <<Text(pre), Expr(a), Text(post)>>)

WrapperFloatVec == "({ float (*wrapper_func)(VectorF*) = (float (*)(VectorF*))"
WrapperVecVec ==
    "({ VectorF* (*wrapper_func)(Arena*, VectorF*) = (VectorF* (*)(Arena*, VectorF*))"
WrapperFloatFloat == "({ float (*wrapper_func)(float) = (float (*)(float))"
VecInput == "VectorF* vec_input = vector_f_create_from_array(arena, (float[]){"

\* the scalar lowering with a slip: the call's argument count is passed as
\* the element count of the vector
AutodiffScalar_ArgCount(st, f, x, runtime) ==
    GenSeq(st, <<Text(WrapperFloatVec), Expr(f), Text("; "),
                 Text(VecInput), Expr(x), Text("}, 2); "),
                 Text("vector_f_get(" \o runtime
                      \o "(arena, wrapper_func, vec_input), 0); })")>>)

\* autodiff-forward and autodiff-reverse: the scalar is wrapped in a vector
AutodiffScalar(st, f, x, runtime) ==
    GenSeq(st, <<Text(WrapperFloatVec), Expr(f), Text("; "),
                 Text(VecInput), Expr(x), Text("}, 1); "),
                 Text("vector_f_get(" \o runtime
                      \o "(arena, wrapper_func, vec_input), 0); })")>>)

\* the lowerings that adapt the function, then call the runtime on the input
AutodiffCall(st, wrapper, f, x, runtime, post) ==
    GenSeq(st, <<Text(wrapper), Expr(f), Text("; "),
                 Text(runtime \o "(arena, wrapper_func, "), Expr(x),
                 Text(post)>>)

\* Regular function call
RegularCall(st, n) ==
    GenSeq(st, <<Expr(Callee(n)), Text("(")>>
               \o Separated(Args(n), ", ") \o <<Text(")")>>)

\* the operator branches of codegen_generate_call
OperatorCall(st, n) ==
    LET op_name == Callee(n).name
        arg_count == ArgCount(n)
        a == Args(n)
    IN
    IF op_name = "+" /\ arg_count = 2
       THEN Binary(st, "(", a[1], " + ", a[2], ")")
    ELSE IF op_name = "-"
       THEN IF arg_count = 1 THEN Unary(st, "(-", a[1], ")")
            ELSE IF arg_count = 2 THEN Binary(st, "(", a[1], " - ", a[2], ")")
            ELSE RegularCall(st, n)
    ELSE IF op_name = "*" /\ arg_count = 2
       THEN Binary(st, "(", a[1], " * ", a[2], ")")
    ELSE IF op_name = "/" /\ arg_count = 2
       THEN Binary(st, "(", a[1], " / ", a[2], ")")
    ELSE IF op_name = "<" /\ arg_count = 2
       THEN Binary(st, "(", a[1], " < ", a[2], ")")
    ELSE IF op_name = ">" /\ arg_count = 2
       THEN Binary(st, "(", a[1], " > ", a[2], ")")
    ELSE IF op_name = "<=" /\ arg_count = 2
       THEN Binary(st, "(", a[1], " <= ", a[2], ")")
    ELSE IF op_name = ">=" /\ arg_count = 2
       THEN Binary(st, "(", a[1], " >= ", a[2], ")")
    ELSE IF op_name = "=" /\ arg_count = 2
       THEN Binary(st, "(", a[1], " == ", a[2], ")")
    ELSE IF op_name = "vector"
       THEN GenSeq(st, <<Text("vector_f_create_from_array(arena, (float[]){")>>
                       \o Separated(a, ", ")
                       \o <<Text("}, " \o FormatZu(arg_count) \o ")")>>)
    ELSE IF op_name = "v+" /\ arg_count = 2
       THEN Binary(st, "vector_f_add(arena, ", a[1], ", ", a[2], ")")
    ELSE IF op_name = "v-" /\ arg_count = 2
       THEN Binary(st, "vector_f_sub(arena, ", a[1], ", ", a[2], ")")
    ELSE IF op_name = "v*" /\ arg_count = 2
       THEN Binary(st, "vector_f_mul_scalar(arena, ", a[1], ", ", a[2], ")")
    ELSE IF op_name = "dot" /\ arg_count = 2
       THEN Binary(st, "vector_f_dot(", a[1], ", ", a[2], ")")
    ELSE IF op_name = "cross" /\ arg_count = 2
       THEN Binary(st, "vector_f_cross(arena, ", a[1], ", ", a[2], ")")
    ELSE IF op_name = "norm" /\ arg_count = 1
       THEN Unary(st, "vector_f_magnitude(", a[1], ")")
    ELSE IF op_name = "gradient" /\ arg_count = 2
       THEN Binary(st, "compute_gradient(arena, ", a[1], ", ", a[2], ")")
    ELSE IF op_name = "divergence" /\ arg_count = 2
       THEN Binary(st, "compute_divergence(arena, ", a[1], ", ", a[2], ")")
    ELSE IF op_name = "curl" /\ arg_count = 2
       THEN Binary(st, "compute_curl(arena, ", a[1], ", ", a[2], ")")
    ELSE IF op_name = "laplacian" /\ arg_count = 2
       THEN Binary(st, "compute_laplacian(arena, ", a[1], ", ", a[2], ")")
    ELSE IF op_name = "display" /\ arg_count = 1
       THEN Unary(st, "printf(\"%s\\n\", ", a[1], ")")
    ELSE IF op_name = "string-append"
       THEN GenSeq(st, <<Text("({ char buffer[1024] = \"\"; ")>>
                       \o Wrapped(a, "strcat(buffer, ", "); ")
                       \o <<Text("strdup(buffer); })")>>)
    ELSE IF op_name = "number->string" /\ arg_count = 1
       THEN Unary(st,
                  "({ char buffer[64]; snprintf(buffer, sizeof(buffer), \"%g\", ",
                  a[1], "); strdup(buffer); })")
    ELSE IF op_name = "autodiff-forward" /\ arg_count = 2
       THEN AutodiffScalar(st, a[1], a[2], "compute_gradient_autodiff")
    ELSE IF op_name = "autodiff-reverse" /\ arg_count = 2
       THEN AutodiffScalar(st, a[1], a[2], "compute_gradient_reverse_mode")
    ELSE IF op_name = "autodiff-forward-gradient" /\ arg_count = 2
       THEN AutodiffCall(st, WrapperFloatVec, a[1], a[2],
                         "compute_gradient_autodiff", "); })")
    ELSE IF op_name = "autodiff-reverse-gradient" /\ arg_count = 2
       THEN AutodiffCall(st, WrapperFloatVec, a[1], a[2],
                         "compute_gradient_reverse_mode", "); })")
    ELSE IF op_name = "autodiff-jacobian" /\ arg_count = 2
       THEN AutodiffCall(st, WrapperVecVec, a[1], a[2],
                         "compute_jacobian", "); })")
    ELSE IF op_name = "autodiff-hessian" /\ arg_count = 2
       THEN AutodiffCall(st, WrapperFloatVec, a[1], a[2],
                         "compute_hessian", "); })")
    ELSE IF op_name = "derivative" /\ arg_count = 2
       THEN AutodiffCall(st, WrapperFloatFloat, a[1], a[2],
                         "compute_nth_derivative", ", 1); })")
    ELSE IF op_name = "vector-ref" /\ arg_count = 2
       THEN Binary(st, "(", a[1], "->data[", a[2], "])")
    ELSE IF op_name = "matrix-ref" /\ arg_count = 3
       THEN GenSeq(st, <<Text("("), Expr(a[1]), Text("["), Expr(a[2]),
                         Text("]->data["), Expr(a[3]), Text("])")>>)
    ELSE IF op_name = "printf"
       THEN GenSeq(st, <<Text("printf(")>> \o Separated(a, ", ")
                       \o <<Text(")")>>)
    ELSE RegularCall(st, n)

\* codegen_generate_call with a slip: the operator table is never consulted
GenCall_RegularOnly(st, n) ==
    LET r == RegularCall([st EXCEPT !.depth = @ + 1], n)
    IN  [r EXCEPT !.depth = st.depth]

\* codegen_generate_call
GenCall(st, n) ==
    LET inner == [st EXCEPT !.depth = @ + 1]
        r == IF Callee(n).type = "AST_IDENTIFIER"
                THEN OperatorCall(inner, n)
                ELSE RegularCall(inner, n)
    IN  [r EXCEPT !.depth = st.depth]

(***************************************************************************)
(* The Call nodes the generator is run on.                                 *)
(***************************************************************************)
OperatorNames ==
    {"+", "-", "*", "/", "<", ">", "<=", ">=", "=",
     "vector", "v+", "v-", "v*", "dot", "cross", "norm",
     "gradient", "divergence", "curl", "laplacian",
     "display", "string-append", "number->string",
     "autodiff-forward", "autodiff-reverse", "autodiff-forward-gradient",
     "autodiff-reverse-gradient", "autodiff-jacobian", "autodiff-hessian",
     "derivative", "vector-ref", "matrix-ref", "printf"}

Callees ==
    {Identifier(name) : name \in OperatorNames \cup {"foo"}}
    \cup {IntegerLiteral(7), CallNode(Identifier("foo"), <<>>), Unhandled}

ArgNodes ==
    {IntegerLiteral(1), FloatLiteral(1500000), Identifier("x"), Unhandled,
     CallNode(Identifier("+"), <<IntegerLiteral(1), IntegerLiteral(2)>>),
     CallNode(Identifier("+"), <<IntegerLiteral(1), Unhandled>>)}

CallNodes ==
    {CallNode(c, args) : c \in Callees, args \in SeqsUpTo(ArgNodes, MaxCallArgs)}

Priors == {"", "x = "}

DriverIdle ==
    /\ pc = "off"
    /\ argv = <<"eshkol">>
    /\ arg_index = 1
    /\ verbose_mode = FALSE
    /\ debug_mode = FALSE
    /\ input_file = NULL
    /\ output_file = NULL
    /\ source = NULL
    /\ arena = NULL
    /\ verbosity = "default"
    /\ ast = "none"
    /\ parse_errors = 0
    /\ codegen_errors = 0
    /\ calls = <<>>
    /\ destroy_count = 0
    /\ free_count = 0
    /\ use_after_destroy = FALSE
    /\ exit_code = NoExit
    /\ FileIdle

MainIdle == DriverIdle /\ ExtIdle

InitCall ==
    /\ cg_pc = "ready"
    /\ node \in CallNodes
    /\ prior \in Priors
    /\ ctx = Fresh(prior)
    /\ rerun = ctx
    /\ MainIdle
    /\ LibIdle

\* codegen_generate_call with a slip: the call rewrites the node it lowers,
\* replacing the callee by the first argument
GenerateCall_RewritesNode ==
    /\ cg_pc = "ready"
    /\ ctx' = GenCall(ctx, node)
    /\ node' = IF ArgCount(node) = 0 THEN node
               ELSE CallNode(Args(node)[1], Args(node))
    /\ cg_pc' = "done"
    /\ UNCHANGED <<prior, rerun, mainVars, fileVars, extVars, libVars>>

\* codegen_generate_call(context, node)
GenerateCall ==
    /\ cg_pc = "ready"
    /\ ctx' = GenCall(ctx, node)
    /\ cg_pc' = "done"
    /\ UNCHANGED <<node, prior, rerun, mainVars, fileVars, extVars, libVars>>

\* codegen_context_init with a slip: the output is opened for appending
Reinit_Append(st, text) == [st EXCEPT !.out = @ \o text]

\* codegen_context_init on a context that was used before: the output is
\* opened anew and holds only what this run writes; the diagnostic context
\* is not touched and keeps what earlier runs recorded.
Reinit(st, text) == [st EXCEPT !.out = text]

\* The same node generated a second time with the same context object,
\* initialised again and brought to the same place of the output.
GenerateAgain ==
    /\ cg_pc = "done"
    /\ rerun' = GenCall(Reinit(ctx, prior), node)
    /\ cg_pc' = "again"
    /\ UNCHANGED <<node, prior, ctx, mainVars, fileVars, extVars, libVars>>

NextCall == GenerateCall \/ GenerateAgain

SpecCall == InitCall /\ [][NextCall]_vars

(***************************************************************************)
(* The binding system, src/unnamed/part_000:139-183. The binding table is  *)
(* the sequence of its first count rows.                                   *)
(***************************************************************************)
MaxBindingCalls == 10   \* calls of binding_system_create_binding

ScopeIds == {0, 1}
BindingNames == {"x"}
BindingFlagSets == {"BINDING_FLAG_NONE"}

\* the results of the four arena_alloc calls that grow the table
GrowthAllocations == [1..4 -> BOOLEAN]

BindingSystems ==
    [next_binding_id : {0, 1}, count : {0}, capacity : {0}, table : {<<>>}]

InitBinding ==
    /\ binding_system \in BindingSystems
    /\ binding_ret = BINDING_ID_INVALID
    /\ MainIdle
    /\ CallIdle
    /\ InferIdle
    /\ ArenaIdle
    /\ LexerIdle

\* "Generate unique binding ID" with a slip: the counter is read and not
\* incremented
TakeBindingId_NoIncrement(system) ==
    [id |-> system.next_binding_id, system |-> system]

\* uint64_t binding_id = system->next_binding_id++;
\* (the calls are bounded far below the 2^64 ids of a uint64_t)
TakeBindingId(system) ==
    [id |-> system.next_binding_id,
     system |-> [system EXCEPT !.next_binding_id = @ + 1]]

binding_system_create_binding ==
    /\ binding_system.next_binding_id < MaxBindingCalls
    /\ \E scope_id \in ScopeIds, name \in BindingNames,
          flags \in BindingFlagSets, allocated \in GrowthAllocations :
        LET taken == TakeBindingId(binding_system)
            binding_id == taken.id
            system == taken.system
            grow == system.count >= system.capacity
            new_capacity == IF system.capacity * 2 = 0 THEN 8
                            ELSE system.capacity * 2
            row == [binding_id |-> binding_id, scope_id |-> scope_id,
                    name |-> name, flags |-> flags]
        IN  IF grow /\ \E i \in 1..4 : ~allocated[i]
               THEN /\ binding_system' = system
                    /\ binding_ret' = BINDING_ID_INVALID
               ELSE /\ binding_system' =
                         [system EXCEPT
                            !.capacity = IF grow THEN new_capacity ELSE @,
                            !.table = Append(@, row),
                            !.count = @ + 1]
                    /\ binding_ret' = binding_id
    /\ UNCHANGED <<mainVars, fileVars, extVars, callVars, inferVars, arenaVars,
                   lexerVars>>

NextBinding == binding_system_create_binding

SpecBinding == InitBinding /\ [][NextBinding]_vars

(***************************************************************************)
(* Type inference of one node, src/unnamed/part_000:104-131. A node is its *)
(* address and its variant; a Type object is its kind and its address.     *)
(***************************************************************************)
MaxInferCalls == 4      \* calls of type_inference_infer_node

InferNodes ==
    {[addr |-> 1, type |-> "AST_INTEGER_LITERAL"],
     [addr |-> 2, type |-> "AST_FLOAT_LITERAL"],
     [addr |-> 3, type |-> "AST_INTEGER_LITERAL"],
     [addr |-> 4, type |-> "AST_IDENTIFIER"]}

\* type_integer_create, type_float_create: an object allocated from the
\* arena, distinct from every earlier one, or NULL
TypeCreate(kind, addr, allocated) ==
    IF allocated THEN [kind |-> kind, addr |-> addr] ELSE NoType

\* type_inference_set_type: the node and its type become one more entry of
\* the type map
type_inference_set_type(context, n, type) ==
    [nodes |-> Append(context.nodes, n),
     inferred_types |-> Append(context.inferred_types, type)]

\* the loop over context->nodes: the indices at which the node is found
Found(context, n) == {i \in DOMAIN context.nodes : context.nodes[i] = n}

Min(S) == CHOOSE x \in S : \A y \in S : x <= y

\* the lookup with a slip: the node is never found
Lookup_NeverFound(context, n) == {}

\* "Check if the node is already in the context"
Lookup(context, n) ==
    IF Found(context, n) = {} THEN {} ELSE {Min(Found(context, n))}

InitInfer ==
    /\ type_context = [nodes |-> <<>>, inferred_types |-> <<>>]
    /\ infer_log = <<>>
    /\ MainIdle
    /\ CallIdle
    /\ BindIdle
    /\ ArenaIdle
    /\ LexerIdle

type_inference_infer_node ==
    /\ Len(infer_log) < MaxInferCalls
    /\ \E n \in InferNodes, allocated \in BOOLEAN :
        LET hit == Lookup(type_context, n)
            fresh == Len(infer_log) + 1
            type == IF n.type = "AST_INTEGER_LITERAL"
                       THEN TypeCreate("integer", fresh, allocated)
                    ELSE IF n.type = "AST_FLOAT_LITERAL"
                       THEN TypeCreate("float", fresh, allocated)
                    ELSE NoType
        IN  IF hit # {}
               THEN /\ infer_log' =
                         Append(infer_log,
                                [node |-> n,
                                 type |-> type_context.inferred_types[Min(hit)]])
                    /\ UNCHANGED type_context
               ELSE /\ type_context' =
                         type_inference_set_type(type_context, n, type)
                    /\ infer_log' = Append(infer_log,
                                           [node |-> n, type |-> type])
    /\ UNCHANGED <<mainVars, fileVars, extVars, callVars, bindVars, arenaVars,
                   lexerVars>>

NextInfer == type_inference_infer_node

SpecInfer == InitInfer /\ [][NextInfer]_vars

(***************************************************************************)
(* The arena, src/docs/aidocs/MEMORY_MANAGEMENT.md:42-158. A block is      *)
(* known by its address, its place in heap; address 0 is the NULL block    *)
(* pointer. size_t arithmetic wraps at SIZE_MAX + 1; size_t is taken at    *)
(* the narrowest width the C standard allows, 16 bits.                     *)
(***************************************************************************)
MaxAllocs == 3          \* calls of arena_alloc

SIZE_MAX == 65535
min_size == 1024        \* "Minimum 1KB"
header_size == 6        \* sizeof(Block): a pointer and two size_t

SizeT(x) == x % (SIZE_MAX + 1)

\* (size + 7) & ~7
AlignUp(size) == SizeT(size + 7) - (SizeT(size + 7) % 8)

Capacities == {0, 2048, 4096}
RequestSizes ==
    {0, 1, 8, 1016, 1024, 3000, 40000, SIZE_MAX - 7, SIZE_MAX}

\* malloc(header_size + block_size) and the initialisation of the block;
\* room is the history of how many bytes malloc reserved for data[]
NewBlock(block_size) ==
    [next |-> 0, size |-> block_size, used |-> 0,
     room |-> SizeT(header_size + block_size) - header_size]

\* "Link new block" with a slip: current->next is not set
LinkBlock_NoLink(h, current, addr, block) == Append(h, block)

\* arena->current->next = new_block;
LinkBlock(h, current, addr, block) ==
    Append([h EXCEPT ![current].next = addr], block)

BlockFree(a) == [what |-> "block", addr |-> a]
ArenaFree == [what |-> "arena", addr |-> 0]

RECURSIVE Chain(_, _)
\* the blocks met from block a on by following next
Chain(h, a) == IF a = 0 THEN <<>> ELSE <<a>> \o Chain(h, h[a].next)

InitArena ==
    /\ ArenaIdle
    /\ MainIdle
    /\ CallIdle
    /\ BindIdle
    /\ InferIdle
    /\ LexerIdle

arena_create ==
    /\ arena_ptr.state = "uncreated"
    /\ \E initial_capacity \in Capacities, arena_ok, block_ok \in BOOLEAN :
        LET block_size == IF initial_capacity > min_size
                             THEN initial_capacity ELSE min_size
        IN  IF ~arena_ok
               THEN /\ arena_ptr' = NoArena("null")
                    /\ UNCHANGED <<heap, frees>>
            ELSE IF ~block_ok
               THEN /\ frees' = Append(frees, ArenaFree)
                    /\ arena_ptr' = NoArena("null")
                    /\ UNCHANGED heap
            ELSE /\ heap' = <<NewBlock(block_size)>>
                 /\ arena_ptr' = [state |-> "live", current |-> 1, first |-> 1,
                                  total_used |-> 0, allocation_count |-> 0,
                                  min_block_size |-> min_size]
                 /\ UNCHANGED frees
    /\ UNCHANGED <<allocs, mainVars, fileVars, extVars, callVars, bindVars,
                   inferVars, lexerVars>>

\* arena_alloc returning NULL only for a request of size zero
ReturnsNull_ZeroOnly(n, needs_block, block_ok) == n = 0

\* "if (size == 0) return NULL;" and "if (!new_block) return NULL;"
ReturnsNull(n, needs_block, block_ok) == n = 0 \/ (needs_block /\ ~block_ok)

\* each call is recorded with the size asked for, the region returned (the
\* block and the offset in its data area; block 0 is a NULL result) and
\* what became of the malloc of a new block
arena_alloc ==
    /\ arena_ptr.state = "live"
    /\ Len(allocs) < MaxAllocs
    /\ \E n \in RequestSizes, block_ok \in BOOLEAN :
        LET size == AlignUp(n)
            cur == heap[arena_ptr.current]
            needs_block == SizeT(cur.used + size) > cur.size
            new_block_size == IF SizeT(cur.size * 2) < size THEN size
                              ELSE SizeT(cur.size * 2)
            new_block == Len(heap) + 1
            linked == IF needs_block
                         THEN LinkBlock(heap, arena_ptr.current, new_block,
                                        NewBlock(new_block_size))
                         ELSE heap
            current == IF needs_block THEN new_block ELSE arena_ptr.current
            asked == IF n = 0 \/ ~needs_block THEN "none"
                     ELSE IF block_ok THEN "allocated" ELSE "failed"
        IN  IF ReturnsNull(n, needs_block, block_ok)
               THEN /\ allocs' = Append(allocs,
                                        [n |-> n, block |-> 0, off |-> 0,
                                         new_block |-> asked])
                    /\ UNCHANGED <<arena_ptr, heap>>
               ELSE /\ allocs' = Append(allocs,
                                        [n |-> n, block |-> current,
                                         off |-> linked[current].used,
                                         new_block |-> asked])
                    /\ heap' = [linked EXCEPT
                                  ![current].used = SizeT(@ + size)]
                    /\ arena_ptr' = [arena_ptr EXCEPT
                                       !.current = current,
                                       !.total_used = SizeT(@ + size),
                                       !.allocation_count = SizeT(@ + 1)]
    /\ UNCHANGED <<frees, mainVars, fileVars, extVars, callVars, bindVars,
                   inferVars, lexerVars>>

arena_destroy ==
    /\ arena_ptr.state \in {"live", "null"}
    /\ IF arena_ptr.state = "null"
          THEN UNCHANGED <<arena_ptr, frees>>
          ELSE LET chain == Chain(heap, arena_ptr.first) IN
               /\ frees' = frees
                            \o [i \in 1..Len(chain) |-> BlockFree(chain[i])]
                            \o <<ArenaFree>>
               /\ arena_ptr' = NoArena("destroyed")
    /\ UNCHANGED <<heap, allocs, mainVars, fileVars, extVars, callVars,
                   bindVars, inferVars, lexerVars>>

NextArena == arena_create \/ arena_alloc \/ arena_destroy

SpecArena == InitArena /\ [][NextArena]_vars

(***************************************************************************)
(* The lexer's number(), src/unnamed/part_000:33-72. The source text is a  *)
(* sequence of characters, ended by NUL as a C string is; start and        *)
(* current are places in it, the first character at place 1.               *)
(***************************************************************************)
MaxSource == 4          \* characters of the source text

NUL == "NUL"
Digits == {"1", "2"}
Chars == Digits \cup {".", "e", ")"}

is_digit(c) == c \in Digits

CharAt(src, i) == IF i \in DOMAIN src THEN src[i] ELSE NUL

peek(lx) == CharAt(lx.source, lx.current)
peek_next(lx) == IF peek(lx) = NUL THEN NUL
                 ELSE CharAt(lx.source, lx.current + 1)
advance(lx) == [lx EXCEPT !.current = @ + 1]

RECURSIVE SkipDigits(_)
\* while (is_digit(peek(lexer))) advance(lexer);
SkipDigits(lx) == IF is_digit(peek(lx)) THEN SkipDigits(advance(lx)) ELSE lx

\* the test for a fraction with a slip: the character after '.' is not
\* looked at
FractionAhead_NoLookahead(lx) == peek(lx) = "."

\* peek(lexer) == '.' && is_digit(peek_next(lexer))
FractionAhead(lx) == peek(lx) = "." /\ is_digit(peek_next(lx))

DigitValue(c) == IF c = "1" THEN 1 ELSE 2

RECURSIVE Pow10(_)
Pow10(k) == IF k = 0 THEN 1 ELSE 10 * Pow10(k - 1)

RECURSIVE DigitsEnd(_, _)
\* the place after the run of digits that starts at place i
DigitsEnd(src, i) ==
    IF is_digit(CharAt(src, i)) THEN DigitsEnd(src, i + 1) ELSE i

RECURSIVE Decimal(_, _, _)
\* the decimal value of the digits of src at the places i..j-1
Decimal(src, i, j) ==
    IF i >= j THEN 0
    ELSE Decimal(src, i, j - 1) * 10 + DigitValue(src[j - 1])

\* strtol(start, &end, 10) at a digit: the value of the run of digits
strtol(src, start) == Decimal(src, start, DigitsEnd(src, start))

\* strtod(start, &end) at a digit: it reads digits, an optional '.' with
\* digits and an optional exponent 'e' with digits, to wherever they end in
\* the source; the value is mantissa * 10^exponent
strtod(src, start) ==
    LET int_end == DigitsEnd(src, start)
        has_point == CharAt(src, int_end) = "."
        frac_end == IF has_point THEN DigitsEnd(src, int_end + 1) ELSE int_end
        frac_len == IF has_point THEN frac_end - int_end - 1 ELSE 0
        has_exp == CharAt(src, frac_end) = "e"
                   /\ is_digit(CharAt(src, frac_end + 1))
        exp_end == IF has_exp THEN DigitsEnd(src, frac_end + 1) ELSE frac_end
        exp == IF has_exp THEN Decimal(src, frac_end + 1, exp_end) ELSE 0
    IN  [mantissa |-> Decimal(src, start, int_end) * Pow10(frac_len)
                      + Decimal(src, int_end + 1, frac_end),
         exponent |-> exp - frac_len]

\* static Token number(Lexer* lexer): the lexer it leaves and the token
number(lx) ==
    LET whole == SkipDigits(lx)
        after == IF FractionAhead(whole) THEN SkipDigits(advance(whole))
                 ELSE whole
        length == after.current - after.start
        is_float == \E i \in 0..(length - 1) :
                        CharAt(after.source, after.start + i) = "."
    IN  [lexer |-> after,
         token |->
           [type |-> "TOKEN_NUMBER", start |-> after.start, length |-> length,
            value |->
              IF is_float
                 THEN [kind |-> "floating", integer |-> 0,
                       floating |-> strtod(after.source, after.start)]
                 ELSE [kind |-> "integer",
                       integer |-> strtol(after.source, after.start),
                       floating |-> [mantissa |-> 0, exponent |-> 0]]]]

Sources == UNION {[1..k -> Chars] : k \in 1..MaxSource}

\* number() is entered with start at a digit and current behind it
LexerEntries ==
    {[source |-> src, start |-> i, current |-> i + 1] :
        <<src, i>> \in {p \in Sources \X (1..MaxSource) :
                           p[2] <= Len(p[1]) /\ is_digit(p[1][p[2]])}}

InitLexer ==
    /\ lexer \in LexerEntries
    /\ token = NoToken
    /\ MainIdle
    /\ CallIdle
    /\ BindIdle
    /\ InferIdle
    /\ ArenaIdle

ScanNumber ==
    /\ token = NoToken
    /\ Len(lexer.source) > 0
    /\ lexer' = number(lexer).lexer
    /\ token' = number(lexer).token
    /\ UNCHANGED <<mainVars, fileVars, extVars, callVars, bindVars, inferVars,
                   arenaVars>>

NextLexer == ScanNumber

SpecLexer == InitLexer /\ [][NextLexer]_vars

(***************************************************************************)
(* The code generator's context,                                           *)
(* src/refactor/src/backend/codegen/context.c. The context is taken as     *)
(* codegen_context_create leaves it, then any of its functions is called.  *)
(***************************************************************************)
MaxIndentOps == 4   \* increments and decrements between two inits
INT_MAX == 2147483647   \* int indent_level

OutputPaths == {NULL, "out.c"}

RECURSIVE Indent(_)
\* context.c:158-160: "    " written indent_level times
Indent(n) == IF n <= 0 THEN "" ELSE "    " \o Indent(n - 1)

ContextCall(op, path, fopen_ok, ret, text) ==
    [op |-> op, path |-> path, fopen_ok |-> fopen_ok, ret |-> ret,
     text |-> text, before |-> codegen_context]

\* context.c:15-33
InitContext ==
    /\ codegen_context = [output |-> NULL, indent_level |-> 0,
                          in_function |-> FALSE, diagnostics |-> "diagnostics"]
    /\ context_log = NoContextCall
    /\ indent_ops = <<>>
    /\ DriverIdle
    /\ CallIdle
    /\ LibIdle
    /\ EnvIdle
    /\ ReadIdle

\* codegen_context_init with a slip: in_function is not reset
codegen_context_init_KeepsFlag ==
    \E path \in OutputPaths, fopen_ok \in BOOLEAN :
        LET opened == ContextInitOutput(path, fopen_ok) IN
        /\ codegen_context' = [codegen_context EXCEPT
                                  !.indent_level = 0,
                                  !.output = opened.output]
        /\ context_log' = ContextCall("init", path, fopen_ok,
                                      opened.ok, "")
        /\ indent_ops' = <<>>
        /\ UNCHANGED <<mainVars, fileVars, callVars, libVars, envs, read_ret>>

\* context.c:38-60
codegen_context_init ==
    \E path \in OutputPaths, fopen_ok \in BOOLEAN :
        LET opened == ContextInitOutput(path, fopen_ok) IN
        /\ codegen_context' = [codegen_context EXCEPT
                                  !.indent_level = 0,
                                  !.in_function = FALSE,
                                  !.output = opened.output]
        /\ context_log' = ContextCall("init", path, fopen_ok,
                                      opened.ok, "")
        /\ indent_ops' = <<>>
        /\ UNCHANGED <<mainVars, fileVars, callVars, libVars, envs, read_ret>>

\* context.c:121-124; the increment of INT_MAX is undefined: any int
codegen_context_increment_indent ==
    /\ Len(indent_ops) < MaxIndentOps
    /\ \E level \in IF codegen_context.indent_level < INT_MAX
                       THEN {codegen_context.indent_level + 1}
                       ELSE {0 - INT_MAX, 0, INT_MAX} :
           codegen_context' = [codegen_context EXCEPT !.indent_level = level]
    /\ context_log' = ContextCall("increment", NULL, FALSE, TRUE, "")
    /\ indent_ops' = Append(indent_ops, "increment")
    /\ UNCHANGED <<mainVars, fileVars, callVars, libVars, envs, read_ret>>

\* codegen_context_decrement_indent without its test of indent_level
codegen_context_decrement_indent_Unguarded ==
    /\ Len(indent_ops) < MaxIndentOps
    /\ codegen_context' = [codegen_context EXCEPT !.indent_level = @ - 1]
    /\ context_log' = ContextCall("decrement", NULL, FALSE, TRUE, "")
    /\ indent_ops' = Append(indent_ops, "decrement")
    /\ UNCHANGED <<mainVars, fileVars, callVars, libVars, envs, read_ret>>

\* context.c:129-134
codegen_context_decrement_indent ==
    /\ Len(indent_ops) < MaxIndentOps
    /\ codegen_context' =
          IF codegen_context.indent_level > 0
             THEN [codegen_context EXCEPT !.indent_level = @ - 1]
             ELSE codegen_context
    /\ context_log' = ContextCall("decrement", NULL, FALSE, TRUE, "")
    /\ indent_ops' = Append(indent_ops, "decrement")
    /\ UNCHANGED <<mainVars, fileVars, callVars, libVars, envs, read_ret>>

\* context.c:147-150
codegen_context_set_in_function ==
    \E flag \in BOOLEAN :
        /\ codegen_context' = [codegen_context EXCEPT !.in_function = flag]
        /\ context_log' = ContextCall("set_in_function", NULL, FALSE, TRUE, "")
        /\ UNCHANGED <<indent_ops, mainVars, fileVars, callVars, libVars,
                       envs, read_ret>>

\* context.c:155-162; the output is asserted not to be NULL
codegen_context_write_indent ==
    /\ codegen_context.output # NULL
    /\ context_log' = ContextCall("write_indent", NULL, FALSE, TRUE,
                                  Indent(codegen_context.indent_level))
    /\ UNCHANGED <<codegen_context, indent_ops, mainVars, fileVars, callVars,
                   libVars, envs, read_ret>>

NextContext ==
    \/ codegen_context_init
    \/ codegen_context_increment_indent
    \/ codegen_context_decrement_indent
    \/ codegen_context_set_in_function
    \/ codegen_context_write_indent

SpecContext == InitContext /\ [][NextContext]_vars

(***************************************************************************)
(* Environments, src/unnamed/part_000:471-559. An environment is known by  *)
(* its address, its place in envs; address 0 is the NULL pointer. Beside   *)
(* parent and ref_count an entry holds history: retained, the references   *)
(* taken (the initial one and one per retain call); direct, the release    *)
(* calls made from outside; released, the decrements of ref_count; freed,  *)
(* the free(env) calls; stale, a retain call reached it after free(env).   *)
(***************************************************************************)
EnvCount == 3       \* environments
MaxRetains == 3     \* references taken of one environment

\* the environment as its creation leaves it: one reference, its creator's
NewEnvironment(parent) ==
    [parent |-> parent, ref_count |-> 1, retained |-> 1, direct |-> 0,
     released |-> 0, freed |-> 0, stale |-> FALSE]

InitEnvironment ==
    /\ envs \in {es \in [1..EnvCount ->
                            {NewEnvironment(p) : p \in 0..EnvCount}] :
                    \A e \in 1..EnvCount : es[e].parent < e}
    /\ DriverIdle
    /\ CallIdle
    /\ LibIdle
    /\ ContextIdle
    /\ ReadIdle

\* part_000:538-542. A retain of an environment already freed writes to
\* memory that was handed back: the count is changed, or the write is lost.
eshkol_environment_retain ==
    \E env \in 0..EnvCount :
        /\ env # 0 => envs[env].retained < MaxRetains
        /\ \E kept \in BOOLEAN :
              envs' =
                IF env = 0 THEN envs
                ELSE [envs EXCEPT
                        ![env].ref_count =
                            IF envs[env].freed > 0 /\ ~kept THEN @
                            ELSE (@ + 1) % (SIZE_MAX + 1),
                        ![env].retained = @ + 1,
                        ![env].stale = @ \/ envs[env].freed > 0]
        /\ UNCHANGED <<mainVars, fileVars, callVars, libVars, contextVars,
                       read_ret>>

RECURSIVE Release_KeepsParent(_, _)
\* eshkol_environment_release without the release of the parent
Release_KeepsParent(es, env) ==
    IF env = 0 THEN es
    ELSE LET count == (es[env].ref_count - 1) % (SIZE_MAX + 1)
             dec == [es EXCEPT ![env].ref_count = count,
                               ![env].released = @ + 1]
         IN  IF count = 0 THEN [dec EXCEPT ![env].freed = @ + 1] ELSE dec

RECURSIVE Release(_, _)
\* part_000:544-559
Release(es, env) ==
    IF env = 0 THEN es
    ELSE LET count == (es[env].ref_count - 1) % (SIZE_MAX + 1)
             dec == [es EXCEPT ![env].ref_count = count,
                               ![env].released = @ + 1]
         IN  IF count = 0
                THEN [Release(dec, dec[env].parent) EXCEPT ![env].freed = @ + 1]
                ELSE dec

\* no environment was released more often than it was retained
NeverOverReleased(es) ==
    \A e \in DOMAIN es : es[e].released <= es[e].retained

\* a release call from outside, in the sequences that release no
\* environment more often than it was retained
eshkol_environment_release ==
    \E env \in 0..EnvCount :
        LET after == IF env = 0 THEN envs
                     ELSE Release([envs EXCEPT ![env].direct = @ + 1], env)
        IN  /\ NeverOverReleased(after)
            /\ envs' = after
            /\ UNCHANGED <<mainVars, fileVars, callVars, libVars, contextVars,
                           read_ret>>

NextEnvironment == eshkol_environment_retain \/ eshkol_environment_release

SpecEnvironment == InitEnvironment /\ [][NextEnvironment]_vars

(***************************************************************************)
(* read_file, src/src/main.c:221-259, on a file that exists or not, that   *)
(* can be positioned or not (a pipe), of file_size bytes. read_ret holds   *)
(* the call: the file, size as ftell gave it, the capacity of the buffer,  *)
(* the bytes fread stored, what was returned (ret, nul_at the place of the *)
(* NUL, length what *length holds, 0 - 1 if it was not written), and what  *)
(* the call left behind (open_files, live_buffers); returned is FALSE if   *)
(* the call did not come back.                                             *)
(***************************************************************************)
MaxFileSize == 4    \* bytes in the file

InitRead ==
    /\ read_ret = NoRead
    /\ DriverIdle
    /\ CallIdle
    /\ LibIdle
    /\ ContextIdle
    /\ EnvIdle

\* main.c:221-259. ftell returns -1 on a file that cannot be positioned
\* (main.c:230) and size_t size takes it as SIZE_MAX; malloc(0) may return
\* NULL or a block of no bytes; fread stores what it read, and storing
\* behind the end of the buffer is undefined: the call goes on or the
\* process is stopped inside fread.
read_file ==
    \E exists, seekable, malloc_ok, has_length, goes_on \in BOOLEAN,
       file_size \in 0..MaxFileSize :
      \E read \in 0..file_size :
        LET size == IF seekable THEN file_size ELSE SIZE_MAX
            capacity == (size + 1) % (SIZE_MAX + 1)
            file == [NoRead EXCEPT !.called = TRUE, !.exists = exists,
                                   !.seekable = seekable,
                                   !.file_size = file_size,
                                   !.has_length = has_length,
                                   !.returned = TRUE]
            sized == [file EXCEPT !.size = size, !.malloc_ok = malloc_ok]
            filled == [sized EXCEPT !.capacity = capacity, !.stored = read]
        IN  /\ read_ret' =
                 IF ~exists THEN file
                 ELSE IF ~malloc_ok THEN sized
                 ELSE IF read > capacity /\ ~goes_on
                    THEN [filled EXCEPT !.returned = FALSE, !.open_files = 1,
                                        !.live_buffers = 1]
                 ELSE IF read # size THEN filled
                 ELSE [filled EXCEPT !.ret = "buffer", !.nul_at = size,
                                     !.live_buffers = 1,
                                     !.length = IF has_length THEN size ELSE @]
            /\ UNCHANGED <<mainVars, fileVars, callVars, libVars, contextVars,
                           envs>>

NextRead == read_file

SpecRead == InitRead /\ [][NextRead]_vars

(***************************************************************************)
(* Properties of main().                                                   *)
(***************************************************************************)
Range(f) == {f[i] : i \in DOMAIN f}

RECURSIVE ScanOptions(_, _)
\* What the command line asks for, read off argv alone: "help", "unknown"
\* (an unknown option), "noinput" or "run".
ScanOptions(av, i) ==
    IF i + 1 > Len(av) THEN "noinput"
    ELSE IF Head(av[i + 1]) # "-" THEN "run"
    ELSE IF av[i + 1] \in {"-v", "--verbose", "-d", "--debug"}
            THEN ScanOptions(av, i + 1)
    ELSE IF av[i + 1] \in {"-h", "--help"} THEN "help"
    ELSE "unknown"

EveryStepSucceeded == \A i \in DOMAIN calls : calls[i].ok

\* C1: main returns 1 on every failure (unknown option, missing input, a
\* failed read, a failed create, a NULL AST, a failed generation, a non-zero
\* result of compile-and-execute), 0 only when every step it took succeeded
\* or help was requested, and no other code.
C1_ExitCodes ==
    pc = "done" =>
        /\ exit_code \in {0, 1}
        /\ exit_code = 0 <=>
              \/ ScanOptions(argv, 1) = "help"
              \/ ScanOptions(argv, 1) = "run" /\ EveryStepSucceeded
        /\ ScanOptions(argv, 1) \in {"unknown", "noinput"} => exit_code = 1
        /\ ~EveryStepSucceeded => exit_code = 1

\* the host compiler failed with a result other than 1 and main returned 1
C1_Witness ==
    /\ pc = "done"
    /\ exit_code = 1
    /\ Len(calls) > 0
    /\ calls[Len(calls)].fn = "codegen_compile_and_execute"
    /\ ~calls[Len(calls)].ok

CodegenCalled == \E i \in DOMAIN calls : calls[i].fn = "codegen_generate"

\* C2: in any run where lexing or parsing recorded an error-severity
\* diagnostic, codegen_generate is never called, also when the parser
\* returned a non-NULL AST.
C2_ErrorsStopBeforeCodegen == parse_errors > 0 => ~CodegenCalled

\* C3: the process exits non-zero whenever an error-severity diagnostic was
\* produced during the compilation, in both modes.
C3_ErrorMeansNonZeroExit ==
    (pc = "done" /\ parse_errors + codegen_errors > 0) => exit_code # 0

\* the pipeline stage a call of main() belongs to
StageOf(fn) ==
    IF fn = "lexer_create" THEN "lexer"
    ELSE IF fn \in {"parser_create", "parser_parse_program"} THEN "parser"
    ELSE IF fn \in {"codegen_context_create", "codegen_generate",
                    "codegen_compile_and_execute"} THEN "code generator"
    ELSE "support"

\* C8: code generation starts only after the parser, then the binding
\* resolver, then the type inferencer have run over the program.
C8_PipelineOrder ==
    \A i \in DOMAIN calls :
        calls[i].fn = "codegen_generate" =>
            \E p, b, t \in 1..(i - 1) :
                /\ p < b /\ b < t
                /\ calls[p].fn = "parser_parse_program"
                /\ StageOf(calls[b].fn) = "binding resolver"
                /\ StageOf(calls[t].fn) = "type inferencer"

\* C9: with an output path main generates C to exactly that path and never
\* invokes the host C compiler; without one, for every input path, it
\* generates C to the input path followed by ".c" and, only if generation
\* succeeded, invokes compile-and-execute on that same path.
C9_OutputMode ==
    \A i \in DOMAIN calls :
        /\ calls[i].fn = "codegen_generate" =>
              calls[i].arg = IF output_file # NULL THEN output_file
                             ELSE input_file \o ".c"
        /\ calls[i].fn = "codegen_compile_and_execute" =>
              /\ output_file = NULL
              /\ i > 1
              /\ calls[i - 1].fn = "codegen_generate"
              /\ calls[i - 1].ok
              /\ calls[i - 1].arg = calls[i].arg
              /\ calls[i].arg = input_file \o ".c"

\* C10: on every path after arena_create succeeded arena_destroy is called
\* exactly once and the source buffer is freed exactly once before main
\* returns, no arena object is used after arena_destroy, and on paths that
\* return before the arena exists arena_destroy is never called.
C10_ArenaLifecycle ==
    /\ destroy_count <= 1
    /\ free_count <= 1
    /\ ~use_after_destroy
    /\ pc # "done" => destroy_count = 0 /\ free_count = 0
    /\ (pc = "done" /\ arena # NULL) =>
          /\ arena = "destroyed" /\ destroy_count = 1
          /\ source = "freed" /\ free_count = 1
    /\ (pc = "done" /\ arena = NULL) =>
          /\ destroy_count = 0
          /\ free_count = IF source = NULL THEN 0 ELSE 1

\* a failure after the arena was created: the parser returned NULL
C10_Witness ==
    /\ pc = "done"
    /\ Len(calls) > 0
    /\ calls[Len(calls)].fn = "parser_parse_program"
    /\ ~calls[Len(calls)].ok
    /\ arena = "destroyed"
    /\ destroy_count = 1
    /\ free_count = 1

RECURSIVE OptionPrefix(_)
\* the arguments main() reads as options: those before the first argument
\* that does not start with '-'
OptionPrefix(args) ==
    IF Len(args) = 0 \/ Head(Head(args)) # "-" THEN {}
    ELSE {Head(args)} \cup OptionPrefix(Tail(args))

DebugAsked == OptionPrefix(Tail(argv)) \cap {"-d", "--debug"} # {}
VerboseAsked == OptionPrefix(Tail(argv)) \cap {"-v", "--verbose"} # {}

DiagnosticsCreated ==
    \E i \in DOMAIN calls :
        calls[i].fn = "diagnostic_context_create" /\ calls[i].ok

\* C14: for every sequence of valid options, debug_mode implies
\* verbose_mode; once the options are parsed debug_mode tells whether
\* -d/--debug occurred and verbose_mode whether any option occurred; the
\* verbosity of the diagnostic context is DEBUG if -d/--debug occurred
\* anywhere, VERBOSE if only -v/--verbose occurred, and the default
\* otherwise, whatever the order and the repetition of the options.
C14_Verbosity ==
    /\ debug_mode => verbose_mode
    /\ pc # "options" =>
          /\ debug_mode = DebugAsked
          /\ verbose_mode = (DebugAsked \/ VerboseAsked)
    /\ verbosity = IF ~DiagnosticsCreated THEN "default"
                   ELSE IF DebugAsked THEN "VERBOSITY_DEBUG"
                   ELSE IF VerboseAsked THEN "VERBOSITY_VERBOSE"
                   ELSE "default"

\* --verbose --debug -v: the debug option between two verbose options
C14_Witness ==
    /\ DiagnosticsCreated
    /\ Len(argv) >= 5
    /\ SubSeq(argv, 2, 4) = <<"--verbose", "--debug", "-v">>
    /\ verbosity = "VERBOSITY_DEBUG"

\* the place in argv (as C counts) of the first argument that does not
\* start with '-'; argc if there is none
FirstNonOption ==
    Min({i \in 1..argc : i = argc \/ Head(Arg(i)) # "-"})

C21_DocumentedCommand ==
    argv = DocumentedCommand =>
        /\ \A i \in DOMAIN calls :
              /\ calls[i].fn = "read_file" => calls[i].arg = "hello.esk"
              /\ calls[i].fn = "codegen_generate" =>
                    /\ calls[i].arg # "hello.esk"
                    /\ calls[i].arg = "hello"
        /\ pc \notin {"options", "done"} =>
              /\ input_file = "hello.esk"
              /\ output_file = "hello"

(***************************************************************************)
(* Properties of codegen_generate_call.                                    *)
(***************************************************************************)
\* the text a sub-expression lowers to when generated on its own
TextOf(n) == GenExpr(Fresh(""), n).out
Generates(n) == GenExpr(Fresh(""), n).ok

StartsWith(s, pre) == Len(s) >= Len(pre) /\ SubSeq(s, 1, Len(pre)) = pre
Contains(s, sub) ==
    \E i \in 1..(Len(s) - Len(sub) + 1) : SubSeq(s, i, i + Len(sub) - 1) = sub

\* what the call wrote
Written == SubSeq(ctx.out, Len(prior) + 1, Len(ctx.out))

ArithmeticOps == {"+", "-", "*", "/"}
ComparisonOps == {"<", ">", "<=", ">=", "="}
VectorOps == {"vector", "v+", "v-", "v*", "dot", "cross", "norm"}
CalculusOps == {"gradient", "divergence", "curl", "laplacian",
                "autodiff-forward", "autodiff-reverse",
                "autodiff-forward-gradient", "autodiff-reverse-gradient",
                "autodiff-jacobian", "autodiff-hessian", "derivative"}
AnyCountOps == {"vector", "string-append", "printf"}

\* the argument counts an intrinsic is lowered for
Accepts(name, count) ==
    IF name \in AnyCountOps THEN TRUE
    ELSE IF name = "-" THEN count \in {1, 2}
    ELSE IF name \in {"norm", "display", "number->string"} THEN count = 1
    ELSE IF name = "matrix-ref" THEN count = 3
    ELSE count = 2

IsIdentifierCallee == Callee(node).type = "AST_IDENTIFIER"
InTable == IsIdentifierCallee /\ Callee(node).name \in OperatorNames
IntrinsicUse == InTable /\ Accepts(Callee(node).name, ArgCount(node))
ArityMismatch == InTable /\ ~Accepts(Callee(node).name, ArgCount(node))

\* the callee expression itself was lowered by this call
CalleeLowered ==
    \E i \in DOMAIN ctx.visited :
        ctx.visited[i] = [node |-> Callee(node), depth |-> 1]

RECURSIVE Joined(_, _)
Joined(texts, sep) ==
    IF Len(texts) = 0 THEN ""
    ELSE IF Len(texts) = 1 THEN texts[1]
    ELSE texts[1] \o sep \o Joined(Tail(texts), sep)

ArgTexts == [i \in 1..ArgCount(node) |-> TextOf(Args(node)[i])]

GenericForm == TextOf(Callee(node)) \o "(" \o Joined(ArgTexts, ", ") \o ")"

COperator(name) == IF name = "=" THEN "==" ELSE name

\* C4: whenever codegen_generate_call returns false the output holds exactly
\* what it held before the call.
C4_NoPartialOutput == (cg_pc = "done" /\ ~ctx.ok) => ctx.out = prior

\* C5: a call that names an intrinsic with an argument count that intrinsic
\* is not lowered for makes code generation record an error diagnostic and
\* return the failure flag.
C5_ArityMismatchFails ==
    (cg_pc = "done" /\ ArityMismatch) =>
        /\ ~ctx.ok
        /\ \E i \in DOMAIN ctx.diags : ctx.diags[i].severity = "error"

\* C6: a Call whose callee is an identifier of the built-in table, used with
\* an accepted argument count, gets only the specialised lowering (infix C
\* for arithmetic and comparisons with = written ==, vector_f_ calls for the
\* vector operators, compute_ calls for the calculus and autodiff operators)
\* and the callee is never lowered as an expression; every other callee (a
\* non-identifier, or a name not in the table) gets the generic call: the
\* callee expression, then the parenthesised, comma-separated arguments.
C6_IntrinsicDispatchFirst ==
    (cg_pc = "done" /\ ctx.ok) =>
        /\ StartsWith(ctx.out, prior)
        /\ IntrinsicUse =>
              LET name == Callee(node).name IN
              /\ ~CalleeLowered
              /\ (name \in ArithmeticOps \cup ComparisonOps) =>
                    Written =
                      IF ArgCount(node) = 1
                         THEN "(-" \o ArgTexts[1] \o ")"
                         ELSE "(" \o ArgTexts[1] \o " " \o COperator(name)
                              \o " " \o ArgTexts[2] \o ")"
              /\ name \in VectorOps => StartsWith(Written, "vector_f_")
              /\ name \in CalculusOps => Contains(Written, "compute_")
        /\ (~IsIdentifierCallee \/ ~InTable) =>
              /\ CalleeLowered
              /\ ctx.visited[1].node = Callee(node)
              /\ Written = GenericForm

\* (= 1 1.5) was lowered to the C comparison and the callee was not emitted
C6_Witness ==
    /\ cg_pc = "done"
    /\ ctx.ok
    /\ node = CallNode(Identifier("="),
                       <<IntegerLiteral(1), FloatLiteral(1500000)>>)
    /\ Written = "(1 == 1.500000)"
    /\ ~CalleeLowered

RECURSIVE LeftFold(_, _, _)
\* (((a1 op a2) op a3) ... op an), acc holding the fold so far
LeftFold(acc, op, rest) ==
    IF Len(rest) = 0 THEN acc
    ELSE LeftFold("(" \o acc \o " " \o op \o " " \o Head(rest) \o ")",
                  op, Tail(rest))

\* C7: + - * / with more than two arguments a1..an are lowered to the
\* left-folded infix expression (((a1 op a2) op a3) ... op an).
C7_LeftFold ==
    (/\ cg_pc = "done"
     /\ IsIdentifierCallee
     /\ Callee(node).name \in ArithmeticOps
     /\ ArgCount(node) > 2
     /\ \A i \in 1..ArgCount(node) : Generates(Args(node)[i]))
    => /\ ctx.ok
       /\ Written = LeftFold(ArgTexts[1], Callee(node).name, Tail(ArgTexts))

C13_NodeUnchanged == [][node' = node]_vars

\* a call that failed on its second argument
C13_Witness ==
    /\ cg_pc = "done"
    /\ ~ctx.ok
    /\ node = CallNode(Identifier("vector"), <<IntegerLiteral(1), Unhandled>>)
    /\ Written = "vector_f_create_from_array(arena, (float[]){1, "

IsAutodiffForward ==
    /\ IsIdentifierCallee
    /\ Callee(node).name = "autodiff-forward"
    /\ ArgCount(node) = 2

\* C20: (autodiff-forward f x) is lowered to a statement expression that
\* adapts f to float (*)(VectorF*), wraps x by vector_f_create_from_array
\* with element count exactly 1, passes the adapted function and that
\* vector to compute_gradient_autodiff, and takes element 0 of the result
\* as its value.
C20_AutodiffForward ==
    (cg_pc = "done" /\ IsAutodiffForward /\ ctx.ok) =>
        LET f == ArgTexts[1]
            x == ArgTexts[2]
        IN  Written =
              "({ float (*wrapper_func)(VectorF*) = (float (*)(VectorF*))"
              \o f \o "; VectorF* vec_input = "
              \o "vector_f_create_from_array(arena, (float[]){" \o x
              \o "}, 1); vector_f_get("
              \o "compute_gradient_autodiff(arena, wrapper_func, vec_input)"
              \o ", 0); })"

\* (autodiff-forward 1 1.5) was lowered
C20_Witness ==
    /\ cg_pc = "done"
    /\ ctx.ok
    /\ node = CallNode(Identifier("autodiff-forward"),
                       <<IntegerLiteral(1), FloatLiteral(1500000)>>)
    /\ Contains(Written, "(float[]){1.500000}, 1)")

(***************************************************************************)
(* Properties of the binding system and of type inference.                 *)
(***************************************************************************)
\* C15: across any sequence of binding_system_create_binding calls, calls
\* that fail while growing the table included, no two bindings stored in
\* the table share an id and every id stored is strictly greater than every
\* id stored before it.
C15_BindingIdsMonotonic ==
    LET table == binding_system.table IN
    /\ binding_system.count = Len(table)
    /\ \A i, j \in DOMAIN table :
          i < j => table[i].binding_id < table[j].binding_id
    /\ \A i \in DOMAIN table :
          table[i].binding_id < binding_system.next_binding_id

\* the ninth call failed while growing the full table of eight, the tenth
\* stored its binding: the id of the failed call is skipped
C15_Witness ==
    /\ binding_system.count = 9
    /\ binding_system.table[9].binding_id
          = binding_system.table[8].binding_id + 2
    /\ binding_ret = binding_system.table[9].binding_id

InferredNodes == {infer_log[k].node : k \in DOMAIN infer_log}

\* C16: after any sequence of type_inference_infer_node calls every node
\* that was inferred has exactly one entry in the type map, the map holds no
\* other entry, and every call returned the type stored for its node, so
\* that inferring a node again returns the stored type and adds nothing.
C16_OneEntryPerNode ==
    /\ Len(type_context.nodes) = Len(type_context.inferred_types)
    /\ \A n \in InferredNodes :
          Cardinality(Found(type_context, n)) = 1
    /\ \A i \in DOMAIN type_context.nodes :
          type_context.nodes[i] \in InferredNodes
    /\ \A k \in DOMAIN infer_log :
          \A i \in Found(type_context, infer_log[k].node) :
              infer_log[k].type = type_context.inferred_types[i]

\* a node was inferred twice: one entry, and both calls returned its type
C16_Witness ==
    /\ Len(infer_log) = 2
    /\ infer_log[1].node = infer_log[2].node
    /\ infer_log[1].type # NoType
    /\ infer_log[2].type = infer_log[1].type
    /\ Len(type_context.nodes) = 1

(***************************************************************************)
(* Properties of the arena.                                                *)
(***************************************************************************)
Returned == {k \in DOMAIN allocs : allocs[k].block # 0}

\* C17: every non-NULL pointer arena_alloc(arena, n) returned designates n
\* bytes that lie wholly inside the data area of one block and are disjoint
\* from every region returned before, and used <= size holds for every
\* block, for every request size n a size_t can hold.
C17_BumpAllocation ==
    /\ \A a \in DOMAIN heap :
          /\ heap[a].used <= heap[a].size
          /\ heap[a].size <= heap[a].room
    /\ \A k \in Returned :
          allocs[k].off + allocs[k].n <= heap[allocs[k].block].size
    /\ \A j, k \in Returned :
          (j < k /\ allocs[j].block = allocs[k].block) =>
              \/ allocs[j].off + allocs[j].n <= allocs[k].off
              \/ allocs[k].off + allocs[k].n <= allocs[j].off

Frees(f) == Cardinality({i \in DOMAIN frees : frees[i] = f})

\* C18: no allocation and no block is freed while the arena lives; in every
\* state of a live arena all its blocks are met from first by following
\* next, each once, and current is the last of them; arena_destroy frees
\* every block the arena ever allocated exactly once and the control
\* structure once.
C18_WholeRegionFree ==
    /\ arena_ptr.state = "live" =>
          LET chain == Chain(heap, arena_ptr.first) IN
          /\ frees = <<>>
          /\ Range(chain) = DOMAIN heap
          /\ Len(chain) = Len(heap)
          /\ arena_ptr.current = chain[Len(chain)]
          /\ heap[arena_ptr.current].next = 0
    /\ arena_ptr.state = "destroyed" =>
          /\ \A a \in DOMAIN heap : Frees(BlockFree(a)) = 1
          /\ Frees(ArenaFree) = 1
          /\ Len(frees) = Len(heap) + 1
    /\ arena_ptr.state \in {"uncreated", "null"} =>
          /\ heap = <<>>
          /\ \A i \in DOMAIN frees : frees[i] = ArenaFree
          /\ Len(frees) <= 1

\* an arena that grew to three blocks was destroyed
C18_Witness ==
    /\ arena_ptr.state = "destroyed"
    /\ Len(heap) = 3
    /\ frees = <<BlockFree(1), BlockFree(2), BlockFree(3), ArenaFree>>

(***************************************************************************)
(* Properties of the lexer.                                                *)
(***************************************************************************)
\* the first place from i on that holds no digit
FirstNonDigit(src, i) ==
    Min({j \in i..(Len(src) + 1) : ~is_digit(CharAt(src, j))})

TokenText == SubSeq(lexer.source, token.start, token.start + token.length - 1)

\* C19: the number token is the digits from its start on and, only if a
\* '.' followed by a digit comes next, that '.' and the digits behind it;
\* it carries a floating payload exactly when its text contains a '.', an
\* integer payload otherwise; a '.' not followed by a digit is left for the
\* next token, so that "12." yields the integer 12.
C19_NumberToken ==
    token # NoToken =>
        LET src == lexer.source
            int_end == FirstNonDigit(src, token.start)
            point == CharAt(src, int_end) = "."
            fraction == point /\ is_digit(CharAt(src, int_end + 1))
            token_end == token.start + token.length
        IN  /\ token.type = "TOKEN_NUMBER"
            /\ lexer.current = token_end
            /\ token_end = IF fraction THEN FirstNonDigit(src, int_end + 1)
                           ELSE int_end
            /\ token.value.kind = IF fraction THEN "floating" ELSE "integer"
            /\ token.value.kind = "floating" <=> "." \in Range(TokenText)
            /\ token.value.kind = "integer" =>
                  token.value.integer = Decimal(src, token.start, int_end)
            /\ (point /\ ~fraction) => peek(lexer) = "."

\* "12." was lexed: the integer 12, the '.' left in the source
C19_Witness ==
    /\ lexer.source = <<"1", "2", ".">>
    /\ TokenText = <<"1", "2">>
    /\ token.value.kind = "integer"
    /\ token.value.integer = 12
    /\ peek(lexer) = "."

(***************************************************************************)
(* Order and failure of the sub-expressions of a call.                     *)
(***************************************************************************)
\* the sub-expressions codegen_generate_call itself handed to
\* codegen_generate_expression, in the order it did
Direct ==
    LET own == SelectSeq(ctx.visited, LAMBDA v : v.depth = 1)
    IN  [i \in DOMAIN own |-> own[i].node]

\* the sub-expressions of the node in source order: the arguments, behind
\* the callee where the callee is lowered as an expression
SubExpressions ==
    IF IntrinsicUse THEN Args(node) ELSE <<Callee(node)>> \o Args(node)

IsPrefix(p, q) == Len(p) <= Len(q) /\ SubSeq(q, 1, Len(p)) = p

EndsWith(str, suffix) ==
    /\ Len(str) >= Len(suffix)
    /\ SubSeq(str, Len(str) - Len(suffix) + 1, Len(str)) = suffix

\* C23: every lowering of a call, intrinsic or generic, generates each
\* argument exactly once and in source order, the generic call with the
\* callee before any argument; no argument is dropped, duplicated or
\* reordered (a lowering that fails has generated a prefix of them).
C23_ArgumentsOnceInOrder ==
    cg_pc = "done" =>
        /\ IsPrefix(Direct, SubExpressions)
        /\ ctx.ok => Direct = SubExpressions

\* (printf 1 1.5 (+ 1 2)) generated its three arguments in order
C23_Witness ==
    /\ cg_pc = "done"
    /\ ctx.ok
    /\ node = CallNode(Identifier("printf"),
                       <<IntegerLiteral(1), FloatLiteral(1500000),
                         CallNode(Identifier("+"),
                                  <<IntegerLiteral(1), IntegerLiteral(2)>>)>>)
    /\ Direct = Args(node)
    /\ Written = "printf(1, 1.500000, (1 + 2))"

\* C24: codegen_generate_call returns false exactly when the generation of
\* one of its sub-expressions returns false, and it stops at the first such
\* failure: the failing sub-expression is the last one generated and the
\* last thing written is what that sub-expression wrote.
C24_StopsAtFirstFailure ==
    cg_pc = "done" =>
        /\ ctx.ok <=> \A i \in DOMAIN SubExpressions :
                          Generates(SubExpressions[i])
        /\ ~ctx.ok =>
              /\ Len(Direct) > 0
              /\ IsPrefix(Direct, SubExpressions)
              /\ ~Generates(Direct[Len(Direct)])
              /\ \A i \in 1..(Len(Direct) - 1) : Generates(Direct[i])
              /\ EndsWith(Written, TextOf(Direct[Len(Direct)]))
              /\ ctx.visited[Len(ctx.visited)].node.type = "AST_UNHANDLED"

\* (v+ (+ 1 <unhandled>) 1): the first argument failed inside, the second
\* was not generated and nothing was written behind "(1 + "
C24_Witness ==
    /\ cg_pc = "done"
    /\ ~ctx.ok
    /\ node = CallNode(Identifier("v+"),
                       <<CallNode(Identifier("+"),
                                  <<IntegerLiteral(1), Unhandled>>),
                         IntegerLiteral(1)>>)
    /\ Len(Direct) = 1
    /\ Written = "vector_f_add(arena, (1 + "

(***************************************************************************)
(* Properties of the code generator's context.                             *)
(***************************************************************************)
RECURSIVE ClampedCount(_)
\* the count of the operations, a decrement at zero not counted
ClampedCount(ops) ==
    IF Len(ops) = 0 THEN 0
    ELSE LET level == ClampedCount(SubSeq(ops, 1, Len(ops) - 1)) IN
         IF ops[Len(ops)] = "increment" THEN level + 1
         ELSE IF level > 0 THEN level - 1
         ELSE 0

RECURSIVE Spaces(_)
Spaces(n) == IF n <= 0 THEN "" ELSE " " \o Spaces(n - 1)

\* C25: from a freshly created or initialised context, after any sequence
\* of increment_indent and decrement_indent calls indent_level is never
\* negative, a decrement at level 0 leaves it 0, the level is the clamped
\* running count of the calls, and write_indent writes exactly
\* 4 * indent_level spaces.
C25_IndentClamped ==
    /\ codegen_context.indent_level >= 0
    /\ codegen_context.indent_level = ClampedCount(indent_ops)
    /\ (context_log.op = "decrement"
        /\ context_log.before.indent_level = 0) =>
          codegen_context.indent_level = 0
    /\ context_log.op = "write_indent" =>
          context_log.text = Spaces(4 * codegen_context.indent_level)

\* decrement at 0, two increments, a decrement, then write_indent wrote
\* four spaces
C25_Witness ==
    /\ indent_ops = <<"decrement", "increment", "increment", "decrement">>
    /\ codegen_context.indent_level = 1
    /\ context_log.op = "write_indent"
    /\ context_log.text = "    "

\* C26: codegen_context_init returns false exactly when an output path was
\* given and could not be opened, and then the output is NULL; with a NULL
\* path it returns true with the output set to stdout; in every case it
\* resets indent_level to 0 and in_function to false and leaves the
\* diagnostics as they were.
C26_ContextInit ==
    context_log.op = "init" =>
        /\ ~context_log.ret <=>
              (context_log.path # NULL /\ ~context_log.fopen_ok)
        /\ ~context_log.ret => codegen_context.output = NULL
        /\ context_log.path = NULL =>
              /\ context_log.ret
              /\ codegen_context.output = "stdout"
        /\ codegen_context.indent_level = 0
        /\ codegen_context.in_function = FALSE
        /\ codegen_context.diagnostics = context_log.before.diagnostics

\* init failed to open the path on a context that was indented, inside a
\* function and writing to a file
C26_Witness ==
    /\ context_log.op = "init"
    /\ ~context_log.ret
    /\ context_log.before.indent_level = 2
    /\ context_log.before.in_function
    /\ context_log.before.output = "file"
    /\ codegen_context.output = NULL
    /\ codegen_context.diagnostics = "diagnostics"

(***************************************************************************)
(* Properties of the environments.                                         *)
(***************************************************************************)
FreedChildren(p) ==
    {c \in DOMAIN envs : envs[c].parent = p /\ envs[c].freed > 0}

\* an environment is freed in a step exactly when the step brings its
\* ref_count from 1 to 0
FreedAtZero ==
    \A e \in DOMAIN envs :
        /\ envs'[e].freed \in {envs[e].freed, envs[e].freed + 1}
        /\ envs'[e].freed > envs[e].freed <=>
              (envs[e].ref_count = 1 /\ envs'[e].ref_count = 0)

\* every environment was freed at most once, and was released once from
\* outside per release call and once per child that was freed
FreedOnceParentOnce ==
    \A e \in DOMAIN envs :
        /\ envs[e].freed <= 1
        /\ envs[e].released = envs[e].direct + Cardinality(FreedChildren(e))

NoStaleRetain == \A e \in DOMAIN envs : ~envs[e].stale

\* C22: for any sequence of retain and release calls in which no
\* environment is released more often than it was retained (its initial
\* reference counted), an environment is freed exactly when a release
\* brings its ref_count from 1 to 0, its parent is then released exactly
\* once (recursively), no environment with ref_count > 0 is freed, and none
\* is freed twice.
C22_RefCounting == []FreedOnceParentOnce /\ [][FreedAtZero]_vars

\* C22 amended: the same, for the sequences that moreover retain no
\* environment after it was freed.
C22_RefCountingOfLive ==
    /\ [](NoStaleRetain =>
            /\ FreedOnceParentOnce
            /\ \A e \in DOMAIN envs :
                  /\ envs[e].freed = 1 <=> envs[e].ref_count = 0
                  /\ envs[e].ref_count = envs[e].retained - envs[e].released)
    /\ [][FreedAtZero]_vars

\* the parent was retained for its child and released by its creator; the
\* release of the child then freed the child and, through it, the parent
C22_Witness ==
    /\ Len(envs) = EnvCount
    /\ envs[2].parent = 1
    /\ envs[1].retained = 2
    /\ envs[1].direct = 1
    /\ envs[1].released = 2
    /\ envs[1].freed = 1
    /\ envs[2].freed = 1
    /\ envs[3].freed = 0
    /\ NoStaleRetain

(***************************************************************************)
(* Properties of read_file.                                                *)
(***************************************************************************)
\* C28: read_file closes the file on every path, returns either NULL (open
\* failure, allocation failure or short read; the buffer freed and *length
\* not written) or a buffer of size + 1 bytes whose last byte is NUL with
\* *length the size of the file; it never returns a buffer after a short
\* read and never leaks the buffer or the handle.
C28_ReadFile ==
    read_ret.called =>
        /\ read_ret.returned
        /\ read_ret.open_files = 0
        /\ read_ret.ret = NULL =>
              /\ read_ret.live_buffers = 0
              /\ read_ret.length = 0 - 1
              /\ \/ ~read_ret.exists
                 \/ ~read_ret.malloc_ok
                 \/ read_ret.stored < read_ret.size
        /\ read_ret.ret # NULL =>
              /\ read_ret.live_buffers = 1
              /\ read_ret.capacity = read_ret.file_size + 1
              /\ read_ret.nul_at = read_ret.capacity - 1
              /\ read_ret.stored = read_ret.file_size
              /\ read_ret.has_length => read_ret.length = read_ret.file_size

(***************************************************************************)
(* Accounting of the arena and its NULL results.                           *)
(***************************************************************************)
RECURSIVE SumUsed(_, _)
\* used of the first k blocks, added up
SumUsed(h, k) == IF k = 0 THEN 0 ELSE h[k].used + SumUsed(h, k - 1)

\* C29: in every reachable state of a live arena total_used is the sum of
\* used over the blocks, allocation_count is the number of non-NULL results
\* of arena_alloc, used of every block is a multiple of 8, and each block
\* added after the first is at least twice as large as the block that was
\* current when it was added.
C29_ArenaAccounting ==
    arena_ptr.state = "live" =>
        /\ arena_ptr.total_used = SumUsed(heap, Len(heap))
        /\ arena_ptr.allocation_count = Cardinality(Returned)
        /\ \A a \in DOMAIN heap : heap[a].used % 8 = 0
        /\ \A a \in DOMAIN heap :
              a > 1 => heap[a].size >= 2 * heap[a - 1].size

\* C30: arena_alloc returns NULL for a request of size zero and when the new
\* block it needs cannot be allocated, and in both cases it leaves the
\* arena, its blocks included, as it was.
C30_NullLeavesArena ==
    [][allocs' # allocs =>
         LET call == allocs'[Len(allocs')] IN
         /\ (call.n = 0 \/ call.new_block = "failed") => call.block = 0
         /\ call.block = 0 => (arena_ptr' = arena_ptr /\ heap' = heap)]_vars

\* after one allocation a request that needed a new block got NULL, and the
\* arena still counts the one allocation in its one block
C30_Witness ==
    /\ arena_ptr.state = "live"
    /\ Len(allocs) = 2
    /\ allocs[1].block = 1
    /\ allocs[2].block = 0
    /\ allocs[2].n = 3000
    /\ allocs[2].new_block = "failed"
    /\ Len(heap) = 1
    /\ arena_ptr.allocation_count = 1
    /\ arena_ptr.total_used = heap[1].used
    /\ heap[1].used = AlignUp(allocs[1].n)

====
